---- MODULE Spec2Model ----
(***************************************************************************)
(* The iteration controller of Chakra: Orchestrator.process (aggregate     *)
(* mode, backend/orchestrator.py) and generate_process_events (live mode,  *)
(* backend/api.py), with the Evaluator that scores every round.            *)
(*                                                                         *)
(* Scores are integers in thousandths: 0.5 is 500, 0.05 is 50.  Every      *)
(* score the Evaluator can produce on the modelled texts is a whole number *)
(* of thousandths, so the comparisons of the code are exact.               *)
(*                                                                         *)
(* A text is a record: lit names a literal the code writes itself ("" for  *)
(* text that came from the language model), n is its length in chunks (0   *)
(* is the empty string), feats are the properties the Evaluator's regular  *)
(* expressions look for, words is its set of lower-cased words, taken from *)
(* the two-word vocabulary {"output", "sort"}.                             *)
(***************************************************************************)
EXTENDS Integers, Sequences, FiniteSets, TLC

\* ------------------------------------------------------------------ bounds
MaxRounds == 3
MaxTokens == 1
MaxExamples == 1
\* Smriti.store calls of one behaviour, and callers at the same time.
MaxStores == 3
MaxWriters == 2
\* Retrieved chunks handed to one Evaluator call.
MaxChunks == 2
\* Lines of the response body one stream reads before its last one.
MaxLines == 3
\* AnalyticsTracker.record_task calls of one behaviour, and how many of the
\* first calls draw their number of rounds freely (later calls record one).
MaxRecords == 102
MaxVaried == 2
\* Events the transport takes from the generator after the client stopped
\* reading, before its send blocks.
MaxBuffered == 1
\* The largest `limit` a Smriti.retrieve_similar call is given.
MaxLimit == 2

\* ------------------------------------------------------- program constants
DefaultMinImprovement == 50
PersistFloor == 600
\* _cleanup_old_tasks(self, keep_count: int = 100)
KeepCount == 100
\* retrieve_similar(self, task, limit = 3, min_score = 0.7)
MinScore == 700

\* ------------------------------------------------------------------- texts
CodePatterns ==
    {"has_comments", "has_docstrings", "has_error_handling", "has_type_hints"}

Text(lit, n, feats, words) ==
    [lit |-> lit, n |-> n, feats |-> feats, words |-> words]

NoneText == Text("None", 0, {}, {})

EmptyText == Text("", 0, {}, {})

UnableText == Text("Unable to generate improved output", 1, {}, {"output"})

ErrorText ==
    Text("Error generating improved output. Please try again.", 1, {}, {"output"})

\* Python truthiness of an Optional[str]: None and "" are false.
Truthy(t) == t.lit # "None" /\ t.n > 0

\* yantra_output += token
Concat(t, tok) ==
    Text("", t.n + 1, t.feats \cup tok.feats, t.words \cup tok.words)

\* len(agni_output.split()) if agni_output else 0
WordCount(t) == IF Truthy(t) THEN t.n ELSE 0

\* The chunks the Generator stream yields.
TokenPool == { Text("", 1, {"structure", "citation"}, {"sort"}) }

\* The complete responses a non-streaming call can return ("" included).
ResponsePool ==
    { EmptyText,
      Text("", 1, {"structure"}, {"sort"}),
      Text("", 1, {"has_comments", "has_docstrings", "multiline"}, {"sort"}),
      Text("", 1, {"structure", "has_comments", "has_docstrings", "citation"},
           {"sort", "output"}),
      Text("", 1, {"structure", "has_comments", "has_docstrings",
                   "has_error_handling", "has_type_hints", "import",
                   "citation", "multiline"}, {"sort", "output"}) }

\* The drafts Yantra.process can return in aggregate mode.
DraftPool == { EmptyText, Text("", 1, {"structure", "citation"}, {"sort"}) }

CritiqueText == Text("", 1, {}, {"output"})

\* rag_chunks: None, or a list of chunks, each chunk its set of words.
NoChunks == [some |-> FALSE, chunks |-> << >>]

Chunks(s) == [some |-> TRUE, chunks |-> s]

RagResults == { Chunks(<< >>), Chunks(<< {"sort"} >>) }

\* `if rag_chunks:` -- None and [] are false.
HasChunks(rc) == rc.some /\ Len(rc.chunks) > 0

\* --------------------------------------------------------------- Evaluator
\* Mutant: the score is not capped.
Min_Uncapped(a, b) == b

Min(a, b) == IF a < b THEN a ELSE b

evaluate_code(code) ==
    LET correctness == 500
        completeness == IF "structure" \in code.feats THEN 700 ELSE 500
        quality == 500 + 100 * Cardinality(code.feats \cap CodePatterns)
                       + (IF "import" \in code.feats THEN 100 ELSE 0)
        c1 == Min(1000, correctness)
        q1 == Min(1000, quality)
        m1 == Min(1000, completeness)
    IN  [correctness |-> c1, quality |-> q1, completeness |-> m1,
         total |-> (c1 * 4 + q1 * 3 + m1 * 3) \div 10]

\* Mutant: without chunks the answer is scored like any other.
evaluate_rag_answer_NoEarlyReturn(answer, rag_chunks) ==
    LET chunk_words == UNION { rag_chunks.chunks[i] : i \in DOMAIN rag_chunks.chunks }
        overlap == Cardinality(answer.words \cap chunk_words)
        total_unique == Cardinality(answer.words \cup chunk_words)
        g0 == IF total_unique > 0
              THEN Min(1000, (overlap * 2000) \div total_unique)
              ELSE 500
        g1 == g0 + (IF "citation" \in answer.feats THEN 200 ELSE 0)
        k1 == 500 + (IF "multiline" \in answer.feats THEN 200 ELSE 0)
                  + (IF "markdown" \in answer.feats THEN 100 ELSE 0)
        grounding == Min(1000, g1)
        clarity == Min(1000, k1)
        completeness == Min(1000, 500)
    IN  [grounding |-> grounding, clarity |-> clarity, completeness |-> completeness,
         total |-> (grounding * 5 + clarity * 3 + completeness * 2) \div 10]

evaluate_rag_answer(answer, rag_chunks) ==
    IF ~HasChunks(rag_chunks)
    THEN [grounding |-> 500, clarity |-> 500, completeness |-> 500, total |-> 500]
    ELSE
    LET chunk_words == UNION { rag_chunks.chunks[i] : i \in DOMAIN rag_chunks.chunks }
        overlap == Cardinality(answer.words \cap chunk_words)
        total_unique == Cardinality(answer.words \cup chunk_words)
        g0 == IF total_unique > 0
              THEN Min(1000, (overlap * 2000) \div total_unique)
              ELSE 500
        g1 == g0 + (IF "citation" \in answer.feats THEN 200 ELSE 0)
        k1 == 500 + (IF "multiline" \in answer.feats THEN 200 ELSE 0)
                  + (IF "markdown" \in answer.feats THEN 100 ELSE 0)
        grounding == Min(1000, g1)
        clarity == Min(1000, k1)
        completeness == Min(1000, 500)
    IN  [grounding |-> grounding, clarity |-> clarity, completeness |-> completeness,
         total |-> (grounding * 5 + clarity * 3 + completeness * 2) \div 10]

evaluate(solution, is_code, rag_chunks) ==
    IF is_code THEN evaluate_code(solution)
    ELSE evaluate_rag_answer(solution, rag_chunks)

\* ------------------------------------------------------------------- state
VARIABLES
    mode,             \* "aggregate" (POST /process) or "live" (POST /process-stream)
    request,          \* TaskRequest: is_code, use_rag
    max_iterations,   \* orchestrator.max_iterations
    min_improvement,  \* orchestrator.min_improvement
    pc,               \* position in the running function
    rag_chunks,
    past_examples,    \* number of past solutions the Memory lookup returned
    iteration,        \* loop variable of `for iteration in range(max_iterations)`
    iterations,       \* list of iteration_data records
    best_score,
    best_solution,
    current_solution,
    yantra_output,
    token_count,
    yantra_score,
    critique,
    events,           \* the SSE events yielded so far (live mode)
    store_calls,      \* arguments of the smriti.store calls made
    analytics_tasks,  \* number of record_task submissions to run_background_task
    result,           \* outcome of Orchestrator.process
    response,         \* HTTP status of POST /process (0 while running)
    calls,            \* the adapter calls of the session, in the order they returned
    background,       \* the tasks created by run_background_task
    memories,         \* the rows of Smriti's table `memories`
    submitted,        \* the arguments of the Smriti.store calls, in call order
    conn,             \* per caller, where its Smriti.store call stands
    consumer,         \* the reader of the event stream: reading, or stalled since when
    stream,           \* one run of BaseAgent._call_ollama_stream
    redis,            \* the keys AnalyticsTracker keeps in Redis
    probe             \* the last call of a pure function and what it returned

cfgVars == << mode, request, max_iterations, min_improvement >>
envVars == << rag_chunks, past_examples >>
sessVars == << iteration, iterations, best_score, best_solution >>
roundVars == << current_solution, yantra_output, token_count, yantra_score, critique >>
outVars == << events, store_calls, analytics_tasks, background, result, response >>
dbVars == << memories, submitted, conn >>
sessionVars == << cfgVars, pc, envVars, sessVars, roundVars, outVars, calls >>
auxVars == << consumer, stream, redis, probe >>
vars == << sessionVars, dbVars, auxVars >>

MinImprovements == {10, DefaultMinImprovement}

Writers == 1..MaxWriters
Idle == [pc |-> "idle"]

\* The client takes every event as it is sent.
Reading == [stalled |-> FALSE]
\* _call_ollama_stream has not been called.
StreamIdle == [pc |-> "idle", lines |-> << >>, yielded |-> 0, error |-> "none"]
\* A Redis database without analytics keys.
RedisEmpty == [task_counter |-> 0, task_ids |-> << >>, tasks |-> {},
               iterations |-> {}, iteration_sets |-> {}]
NoProbe == [op |-> "none"]

Init ==
    /\ mode \in {"aggregate", "live"}
    /\ request \in [is_code : BOOLEAN, use_rag : BOOLEAN]
    /\ max_iterations \in 1..MaxRounds
    /\ min_improvement \in MinImprovements
    /\ pc = IF mode = "live" THEN "start" ELSE "retrieve"
    /\ rag_chunks = NoChunks
    /\ past_examples = 0
    /\ iteration = 0
    /\ iterations = << >>
    /\ best_score = 0
    /\ best_solution = NoneText
    /\ current_solution = NoneText
    /\ yantra_output = EmptyText
    /\ token_count = 0
    /\ yantra_score = 0
    /\ critique = NoneText
    /\ events = << >>
    /\ store_calls = << >>
    /\ analytics_tasks = 0
    /\ result = [status |-> "pending"]
    /\ response = 0
    /\ calls = << >>
    /\ background = << >>
    /\ memories = {}
    /\ submitted = << >>
    /\ conn = [c \in Writers |-> Idle]
    /\ consumer = Reading
    /\ stream = StreamIdle
    /\ redis = RedisEmpty
    /\ probe = NoProbe

\* Mutant: the first element is read instead of the last.
Last_First(s) == s[1]

Last(s) == s[Len(s)]

\* ---------------------------------------------------- the adapter call log
\* What a call gave back: a value, or an exception.
Returned(v) == [ok |-> TRUE, value |-> v]
Raised == [ok |-> FALSE]

Call(adapter, it, args, out) ==
    [adapter |-> adapter, iteration |-> it, args |-> args, out |-> out]

LogCalls(cs) == calls' = calls \o cs

\* Mutant: the past solutions go into the prompt of every round.
process_PastExamples_EveryRound(it, examples) == examples

\* `past_examples=past_examples if iteration == 0 else None` (orchestrator.py 83)
process_PastExamples(it, examples) == IF it = 0 THEN examples ELSE 0

\* `if past_examples and iteration == 0:` (api.py 177)
generate_process_events_PastExamples(it, examples) ==
    IF examples > 0 /\ it = 0 THEN examples ELSE 0

\* orchestrator.py 97-102: what agni.process is given.
process_AgniInput(draft, crit) == [draft |-> draft, critique |-> crit]

\* Mutant: the critique is left out of the Improver's prompt.
generate_process_events_AgniInput_NoCritique(draft, crit) ==
    [draft |-> draft, critique |-> NoneText]

\* api.py 241-245: the Improver's prompt is built from current_solution and
\* sutra_result['critique'].
generate_process_events_AgniInput(draft, crit) == [draft |-> draft, critique |-> crit]

\* ------------------------------------------------- the convergence rules
\* Mutant: the best is overwritten by every round.
Improves_Always(score, best) == TRUE

\* Mutant: a round that ties with the best replaces it.
Improves_OrEqual(score, best) == score >= best

\* Mutant: only a round above the persistence floor becomes the best.
Improves_AboveFloor(score, best) == score > best /\ score > PersistFloor

\* `if score > best_score:` (orchestrator.py 128, api.py 338)
Improves(score, best) == score > best

\* Mutant: the round is compared with itself, as api.py 344 does.
process_Plateau_Self(its, it, score, minimp) ==
    it > 0 /\ score - its[Len(its)].score < minimp

\* orchestrator.py 133-137: the round just appended is iterations[-1], the
\* previous one iterations[-2].
process_Plateau(its, it, score, minimp) ==
    it > 0 /\ score - its[Len(its) - 1].score < minimp

\* Mutant: the test is made after round 1 as well.
generate_process_events_Plateau_FromRound1(its, it, agni_score, minimp) ==
    agni_score - Last(its).agni_score < minimp

\* api.py 343-346: prev_agni_score is read from iterations[-1] after the
\* append of line 328, i.e. from the round that was just scored.
generate_process_events_Plateau(its, it, agni_score, minimp) ==
    it > 0 /\ agni_score - Last(its).agni_score < minimp

\* Mutant: the floor of Smriti.retrieve_similar (min_score 0.7) is used.
ShouldStore_RetrievalFloor(best) == best > PersistFloor + 100

\* `if best_score > 0.6:` (orchestrator.py 140, api.py 355)
ShouldStore(best) == best > PersistFloor

StoreCall(sol, score, n) ==
    [solution |-> sol, quality_score |-> score,
     metadata |-> [is_code |-> request.is_code, used_rag |-> request.use_rag,
                   iterations |-> n]]

\* ------------------------------------------ Orchestrator.process (aggregate)
process_Raise ==
    /\ result' = [status |-> "raised"]
    /\ pc' = "process_task"

\* orchestrator.py 40-66: the Retriever and Memory lookups, awaited jointly.
process_Retrieve ==
    /\ mode = "aggregate" /\ pc = "retrieve"
    /\ \/ /\ \E rc \in (IF request.use_rag THEN RagResults ELSE {NoChunks}),
                k \in 0..MaxExamples :
                /\ rag_chunks' = rc
                /\ past_examples' = k
                /\ LogCalls((IF request.use_rag
                             THEN << Call("retriever", 0, << >>, Returned(rc)) >>
                             ELSE << >>)
                            \o << Call("memory", 0, << >>, Returned(k)) >>)
          /\ pc' = "yantra"
          /\ UNCHANGED result
       \/ /\ process_Raise
          /\ LogCalls((IF request.use_rag
                       THEN << Call("retriever", 0, << >>, Returned(Chunks(<< >>))) >>
                       ELSE << >>)
                      \o << Call("memory", 0, << >>, Raised) >>)
          /\ UNCHANGED envVars
    /\ UNCHANGED << cfgVars, dbVars, auxVars, sessVars, roundVars, events, store_calls,
                    analytics_tasks, background, response >>

\* orchestrator.py 68-86
process_Yantra ==
    /\ mode = "aggregate" /\ pc = "yantra"
    /\ iteration < max_iterations
    /\ \/ /\ \E out \in DraftPool :
                /\ yantra_output' = out
                /\ current_solution' = out
                /\ LogCalls(<< Call("generator", iteration + 1,
                                    [examples |-> process_PastExamples(iteration, past_examples)],
                                    Returned(out)) >>)
          /\ pc' = "sutra"
          /\ UNCHANGED result
       \/ /\ process_Raise
          /\ LogCalls(<< Call("generator", iteration + 1,
                              [examples |-> process_PastExamples(iteration, past_examples)],
                              Raised) >>)
          /\ UNCHANGED << yantra_output, current_solution >>
    /\ UNCHANGED << cfgVars, dbVars, auxVars, envVars, sessVars, token_count, yantra_score,
                    critique, events, store_calls, analytics_tasks, background, response >>

\* orchestrator.py 88-94
process_Sutra ==
    /\ mode = "aggregate" /\ pc = "sutra"
    /\ \/ /\ critique' = CritiqueText
          /\ LogCalls(<< Call("critic", iteration + 1, [draft |-> current_solution],
                              Returned(CritiqueText)) >>)
          /\ pc' = "agni"
          /\ UNCHANGED result
       \/ /\ process_Raise
          /\ LogCalls(<< Call("critic", iteration + 1, [draft |-> current_solution],
                              Raised) >>)
          /\ UNCHANGED critique
    /\ UNCHANGED << cfgVars, dbVars, auxVars, envVars, sessVars, current_solution, yantra_output,
                    token_count, yantra_score, events, store_calls,
                    analytics_tasks, background, response >>

\* orchestrator.py 96-104
process_Agni ==
    /\ mode = "aggregate" /\ pc = "agni"
    /\ \/ /\ \E out \in ResponsePool :
                /\ current_solution' = out
                /\ LogCalls(<< Call("improver", iteration + 1,
                                    process_AgniInput(current_solution, critique),
                                    Returned(out)) >>)
          /\ pc' = "evaluate"
          /\ UNCHANGED result
       \/ /\ process_Raise
          /\ LogCalls(<< Call("improver", iteration + 1,
                              process_AgniInput(current_solution, critique),
                              Raised) >>)
          /\ UNCHANGED current_solution
    /\ UNCHANGED << cfgVars, dbVars, auxVars, envVars, sessVars, yantra_output, token_count,
                    yantra_score, critique, events, store_calls,
                    analytics_tasks, background, response >>

\* orchestrator.py 106-137: score the round, append it, update the best,
\* decide whether the loop goes on.
process_Evaluate ==
    /\ mode = "aggregate" /\ pc = "evaluate"
    /\ LET score == evaluate(current_solution, request.is_code, rag_chunks).total
           improvement == IF iteration > 0 THEN score - Last(iterations).score ELSE 0
           iteration_data ==
               [iteration |-> iteration + 1,
                yantra_output |-> yantra_output,
                sutra_critique |-> critique,
                agni_output |-> current_solution,
                score |-> score,
                improvement |-> improvement]
           its == Append(iterations, iteration_data)
       IN  /\ iterations' = its
           /\ LogCalls(<< Call("scorer", iteration + 1, [text |-> current_solution],
                               Returned(score)) >>)
           /\ IF Improves(score, best_score)
              THEN best_score' = score /\ best_solution' = current_solution
              ELSE UNCHANGED << best_score, best_solution >>
           /\ IF process_Plateau(its, iteration, score, min_improvement)
              THEN pc' = "store" /\ UNCHANGED iteration
              ELSE /\ iteration' = iteration + 1
                   /\ pc' = IF iteration + 1 < max_iterations THEN "yantra" ELSE "store"
    /\ UNCHANGED << cfgVars, dbVars, auxVars, envVars, roundVars, outVars >>

\* orchestrator.py 139-150
process_Store ==
    /\ mode = "aggregate" /\ pc = "store"
    /\ IF ShouldStore(best_score)
       THEN /\ store_calls' =
                  Append(store_calls, StoreCall(best_solution, best_score, Len(iterations)))
            /\ \/ pc' = "return" /\ UNCHANGED result
               \/ process_Raise
       ELSE /\ pc' = "return"
            /\ UNCHANGED << store_calls, result >>
    /\ UNCHANGED << cfgVars, dbVars, auxVars, calls, envVars, sessVars, roundVars, events,
                    analytics_tasks, background, response >>

\* orchestrator.py 152-160
process_Return ==
    /\ mode = "aggregate" /\ pc = "return"
    /\ result' = [status |-> "returned",
                  final_solution |-> best_solution,
                  final_score |-> best_score,
                  iterations |-> iterations,
                  total_iterations |-> Len(iterations),
                  used_rag |-> request.use_rag]
    /\ pc' = "process_task"
    /\ UNCHANGED << cfgVars, dbVars, auxVars, calls, envVars, sessVars, roundVars, events, store_calls,
                    analytics_tasks, background, response >>

\* ------------------------------------------------- run_background_task
Task(status, runs) == [func |-> "record_task", status |-> status, runs |-> runs]

\* Mutant: the wrapper is awaited before run_background_task returns.
run_background_task_Awaited ==
    \E status \in {"ok", "failed"} : background' = Append(background, Task(status, 1))

\* background_tasks.py 43: asyncio.create_task(safe_wrapper()); the task is
\* created and the caller goes on.
run_background_task ==
    background' = Append(background, Task("pending", 0))

\* Mutant: a failed operation is left to be run again.
run_background_task_safe_wrapper_Retry ==
    /\ \E i \in DOMAIN background :
          /\ background[i].status = "pending"
          /\ background[i].runs < 2
          /\ \E status \in {"ok", "pending"} :
                background' = [background EXCEPT ![i] =
                                  Task(status, background[i].runs + 1)]
    /\ UNCHANGED << cfgVars, pc, envVars, sessVars, roundVars, events, store_calls,
                    analytics_tasks, result, response, calls, dbVars, auxVars >>

\* background_tasks.py 28-40: the event loop runs the task once; func returns
\* or raises, and the exception is printed and dropped.
run_background_task_safe_wrapper ==
    /\ \E i \in DOMAIN background :
          /\ background[i].status = "pending"
          /\ \E status \in {"ok", "failed"} :
                background' = [background EXCEPT ![i] =
                                  Task(status, background[i].runs + 1)]
    /\ UNCHANGED << cfgVars, pc, envVars, sessVars, roundVars, events, store_calls,
                    analytics_tasks, result, response, calls, dbVars, auxVars >>

\* Mutant: the analytics record is submitted for a failed session as well.
process_task_SubmitOnError ==
    /\ mode = "aggregate" /\ pc = "process_task"
    /\ analytics_tasks' = analytics_tasks + 1
    /\ run_background_task
    /\ response' = IF result.status = "returned" THEN 200 ELSE 500
    /\ pc' = "done"
    /\ UNCHANGED << cfgVars, dbVars, auxVars, calls, envVars, sessVars, roundVars, events, store_calls,
                    result >>

\* api.py 93-121: POST /process around Orchestrator.process.
process_task ==
    /\ mode = "aggregate" /\ pc = "process_task"
    /\ IF result.status = "returned"
       THEN /\ analytics_tasks' = analytics_tasks + 1
            /\ run_background_task
            /\ response' = 200
       ELSE /\ UNCHANGED << analytics_tasks, background >>
            /\ response' = 500
    /\ pc' = "done"
    /\ UNCHANGED << cfgVars, dbVars, auxVars, calls, envVars, sessVars, roundVars, events, store_calls,
                    result >>

\* ------------------------------------- generate_process_events (live mode)
Emit(e) == events' = Append(events, e)

\* Mutant: the exception is swallowed without an `error` event.
generate_process_events_Except_Silent ==
    /\ UNCHANGED events
    /\ pc' = "done"

\* api.py 391-393: any Exception ends the stream with one `error` event
\* whose payload is the exception's text, twice.
generate_process_events_Except ==
    /\ Emit([type |-> "error", message |-> "exception", error |-> "exception"])
    /\ pc' = "done"

\* api.py 131-133
generate_process_events_Start ==
    /\ mode = "live" /\ pc = "start"
    /\ Emit([type |-> "start"])
    /\ pc' = "rag"
    /\ UNCHANGED << cfgVars, dbVars, auxVars, calls, envVars, sessVars, roundVars, store_calls,
                    analytics_tasks, background, result, response >>

\* Mutant: rag_retrieved is sent whether or not retrieval is enabled.
generate_process_events_Rag_Always ==
    /\ mode = "live" /\ pc = "rag"
    /\ \E rc \in RagResults :
          /\ rag_chunks' = IF request.use_rag THEN rc ELSE rag_chunks
          /\ Emit([type |-> "rag_retrieved", chunks_count |-> Len(rc.chunks)])
    /\ pc' = "memory"
    /\ UNCHANGED << cfgVars, dbVars, auxVars, calls, past_examples, sessVars, roundVars, store_calls,
                    analytics_tasks, background, result, response >>

\* api.py 135-139; VectorRAGRetriever.retrieve catches its own errors and
\* returns [] (vector_retriever.py 142-166).
generate_process_events_Rag ==
    /\ mode = "live" /\ pc = "rag"
    /\ IF request.use_rag
       THEN \E rc \in RagResults :
                /\ rag_chunks' = rc
                /\ LogCalls(<< Call("retriever", 0, << >>, Returned(rc)) >>)
                /\ Emit([type |-> "rag_retrieved", chunks_count |-> Len(rc.chunks)])
       ELSE UNCHANGED << rag_chunks, events, calls >>
    /\ pc' = "memory"
    /\ UNCHANGED << cfgVars, dbVars, auxVars, past_examples, sessVars, roundVars, store_calls,
                    analytics_tasks, background, result, response >>

\* api.py 141-148
generate_process_events_Memory ==
    /\ mode = "live" /\ pc = "memory"
    /\ \/ /\ \E k \in 0..MaxExamples :
                /\ past_examples' = k
                /\ LogCalls(<< Call("memory", 0, << >>, Returned(k)) >>)
                /\ IF k > 0
                   THEN Emit([type |-> "memory_found", examples_count |-> k])
                   ELSE UNCHANGED events
          /\ pc' = "iteration_start"
       \/ /\ generate_process_events_Except
          /\ LogCalls(<< Call("memory", 0, << >>, Raised) >>)
          /\ UNCHANGED past_examples
    /\ UNCHANGED << cfgVars, dbVars, auxVars, rag_chunks, sessVars, roundVars, store_calls,
                    analytics_tasks, background, result, response >>

\* api.py 150-160
generate_process_events_IterationStart ==
    /\ mode = "live" /\ pc = "iteration_start"
    /\ iteration < max_iterations
    /\ Emit([type |-> "iteration_start", iteration |-> iteration + 1])
    /\ pc' = "first_response_started"
    /\ UNCHANGED << cfgVars, dbVars, auxVars, calls, envVars, sessVars, roundVars, store_calls,
                    analytics_tasks, background, result, response >>

\* api.py 162-193
generate_process_events_FirstResponseStarted ==
    /\ mode = "live" /\ pc = "first_response_started"
    /\ Emit([type |-> "first_response_started"])
    /\ yantra_output' = EmptyText
    /\ token_count' = 0
    /\ pc' = "stream"
    /\ UNCHANGED << cfgVars, dbVars, auxVars, calls, envVars, sessVars, current_solution, yantra_score,
                    critique, store_calls, analytics_tasks, background, result, response >>

\* api.py 194-202: one chunk yielded by _call_ollama_stream.
generate_process_events_Token ==
    /\ mode = "live" /\ pc = "stream"
    /\ token_count < MaxTokens
    /\ \E token \in TokenPool :
          /\ yantra_output' = Concat(yantra_output, token)
          /\ token_count' = token_count + 1
          /\ Emit([type |-> "token", token |-> token,
                   token_count |-> token_count + 1, iteration |-> iteration + 1])
    /\ UNCHANGED << cfgVars, dbVars, auxVars, calls, pc, envVars, sessVars, current_solution, yantra_score,
                    critique, store_calls, analytics_tasks, background, result, response >>

\* How _call_ollama_stream ends (base_agent.py 110-205): "done" is the done
\* record or the end of the body, "error_record" is an in-band {"error": ...}
\* record (logged, then a plain return), "raised" is a transport failure
\* re-raised as Exception.
StreamEndings == {"done", "error_record", "raised"}

StreamRaises(ending) == ending = "raised"

\* api.py 194-218: the stream ends; the draft is scored.
generate_process_events_StreamEnd ==
    /\ mode = "live" /\ pc = "stream"
    /\ \E ending \in StreamEndings :
          IF StreamRaises(ending)
          THEN /\ generate_process_events_Except
               /\ LogCalls(<< Call("generator", iteration + 1,
                                   [examples |-> generate_process_events_PastExamples(
                                                     iteration, past_examples)],
                                   Raised) >>)
               /\ UNCHANGED << current_solution, yantra_score >>
          ELSE /\ current_solution' = yantra_output
               /\ yantra_score' =
                     evaluate(yantra_output, request.is_code, rag_chunks).total
               /\ LogCalls(<< Call("generator", iteration + 1,
                                   [examples |-> generate_process_events_PastExamples(
                                                     iteration, past_examples)],
                                   Returned(yantra_output)),
                              Call("scorer", iteration + 1, [text |-> yantra_output],
                                   Returned(evaluate(yantra_output, request.is_code,
                                                     rag_chunks).total)) >>)
               /\ Emit([type |-> "first_response_complete", iteration |-> iteration + 1])
               /\ pc' = "sutra_started"
    /\ UNCHANGED << cfgVars, dbVars, auxVars, envVars, sessVars, yantra_output, token_count,
                    critique, store_calls, analytics_tasks, background, result, response >>

\* api.py 220-221
generate_process_events_SutraStarted ==
    /\ mode = "live" /\ pc = "sutra_started"
    /\ Emit([type |-> "sutra_started", iteration |-> iteration + 1])
    /\ pc' = "sutra"
    /\ UNCHANGED << cfgVars, dbVars, auxVars, calls, envVars, sessVars, roundVars, store_calls,
                    analytics_tasks, background, result, response >>

\* Mutant: a Critic failure persists the best solution before `error`.
generate_process_events_Sutra_StoreOnError ==
    /\ mode = "live" /\ pc = "sutra"
    /\ \/ /\ critique' = CritiqueText
          /\ LogCalls(<< Call("critic", iteration + 1, [draft |-> current_solution],
                              Returned(CritiqueText)) >>)
          /\ Emit([type |-> "improving_started", iteration |-> iteration + 1])
          /\ pc' = "agni"
          /\ UNCHANGED store_calls
       \/ /\ generate_process_events_Except
          /\ LogCalls(<< Call("critic", iteration + 1, [draft |-> current_solution],
                              Raised) >>)
          /\ store_calls' =
                IF ShouldStore(best_score)
                THEN Append(store_calls, StoreCall(best_solution, best_score, Len(iterations)))
                ELSE store_calls
          /\ UNCHANGED critique
    /\ UNCHANGED << cfgVars, dbVars, auxVars, envVars, sessVars, current_solution, yantra_output,
                    token_count, yantra_score, analytics_tasks, background,
                    result, response >>

\* api.py 223-232
generate_process_events_Sutra ==
    /\ mode = "live" /\ pc = "sutra"
    /\ \/ /\ critique' = CritiqueText
          /\ LogCalls(<< Call("critic", iteration + 1, [draft |-> current_solution],
                              Returned(CritiqueText)) >>)
          /\ Emit([type |-> "improving_started", iteration |-> iteration + 1])
          /\ pc' = "agni"
       \/ /\ generate_process_events_Except
          /\ LogCalls(<< Call("critic", iteration + 1, [draft |-> current_solution],
                              Raised) >>)
          /\ UNCHANGED critique
    /\ UNCHANGED << cfgVars, dbVars, auxVars, envVars, sessVars, current_solution, yantra_output,
                    token_count, yantra_score, store_calls, analytics_tasks, background,
                    result, response >>

\* api.py 265-281: what agni_output is after the try/except.
AgniOutcomes == ResponsePool \cup {NoneText}

\* Mutant: no fallback text is substituted.
agni_output_NoFallback(outcome) == outcome

agni_output(outcome) ==
    IF outcome = NoneText THEN ErrorText          \* the call raised
    ELSE IF ~Truthy(outcome) THEN UnableText      \* `if not agni_output`
    ELSE outcome

\* api.py 265-295: the Improver call, its fallbacks, the improved_token event.
generate_process_events_Agni ==
    /\ mode = "live" /\ pc = "agni"
    /\ \E outcome \in AgniOutcomes :
          /\ current_solution' = agni_output(outcome)
          /\ LogCalls(<< Call("improver", iteration + 1,
                              generate_process_events_AgniInput(current_solution, critique),
                              IF outcome = NoneText THEN Raised ELSE Returned(outcome)) >>)
          /\ Emit([type |-> "improved_token",
                   token |-> agni_output(outcome),
                   iteration |-> iteration + 1,
                   token_count |-> WordCount(agni_output(outcome))])
    /\ pc' = "improved"
    /\ UNCHANGED << cfgVars, dbVars, auxVars, envVars, sessVars, yantra_output, token_count,
                    yantra_score, critique, store_calls, analytics_tasks, background,
                    result, response >>

\* Mutant: the `improved` event is not sent.
generate_process_events_Improved_Skip ==
    /\ mode = "live" /\ pc = "improved"
    /\ pc' = "evaluate"
    /\ UNCHANGED << cfgVars, dbVars, auxVars, calls, envVars, sessVars, roundVars, outVars >>

\* Mutant: the `improved` event carries the draft.
generate_process_events_Improved_Draft ==
    /\ mode = "live" /\ pc = "improved"
    /\ Emit([type |-> "improved",
             iteration |-> iteration + 1,
             improved_output |-> yantra_output,
             solution |-> yantra_output,
             token_count |-> WordCount(current_solution)])
    /\ pc' = "evaluate"
    /\ UNCHANGED << cfgVars, dbVars, auxVars, calls, envVars, sessVars, roundVars, store_calls,
                    analytics_tasks, background, result, response >>

\* api.py 297-298
generate_process_events_Improved ==
    /\ mode = "live" /\ pc = "improved"
    /\ Emit([type |-> "improved",
             iteration |-> iteration + 1,
             improved_output |-> current_solution,
             solution |-> current_solution,
             token_count |-> WordCount(current_solution)])
    /\ pc' = "evaluate"
    /\ UNCHANGED << cfgVars, dbVars, auxVars, calls, envVars, sessVars, roundVars, store_calls,
                    analytics_tasks, background, result, response >>

\* Mutant: the round is appended but its iteration_complete is not yielded.
generate_process_events_Evaluate_NoEvent ==
    /\ mode = "live" /\ pc = "evaluate"
    /\ LET agni_score == evaluate(current_solution, request.is_code, rag_chunks).total
           improvement == agni_score - yantra_score
           iteration_data ==
               [iteration |-> iteration + 1,
                yantra_output |-> yantra_output,
                sutra_critique |-> critique,
                agni_output |-> current_solution,
                yantra_score |-> yantra_score,
                agni_score |-> agni_score,
                score |-> agni_score,
                improvement |-> improvement,
                iteration_improvement |->
                    IF iteration > 0
                    THEN agni_score - Last(iterations).agni_score
                    ELSE improvement]
       IN  /\ iterations' = Append(iterations, iteration_data)
           /\ LogCalls(<< Call("scorer", iteration + 1, [text |-> current_solution],
                               Returned(agni_score)) >>)
           /\ UNCHANGED events
    /\ pc' = "converge"
    /\ UNCHANGED << cfgVars, dbVars, auxVars, envVars, iteration, best_score, best_solution,
                    roundVars, store_calls, analytics_tasks, background, result, response >>

\* api.py 304-335: score the improved text, append the round, emit it.
generate_process_events_Evaluate ==
    /\ mode = "live" /\ pc = "evaluate"
    /\ LET agni_score == evaluate(current_solution, request.is_code, rag_chunks).total
           improvement == agni_score - yantra_score
           iteration_data ==
               [iteration |-> iteration + 1,
                yantra_output |-> yantra_output,
                sutra_critique |-> critique,
                agni_output |-> current_solution,
                yantra_score |-> yantra_score,
                agni_score |-> agni_score,
                score |-> agni_score,
                improvement |-> improvement,
                iteration_improvement |->
                    IF iteration > 0
                    THEN agni_score - Last(iterations).agni_score
                    ELSE improvement]
       IN  /\ iterations' = Append(iterations, iteration_data)
           /\ LogCalls(<< Call("scorer", iteration + 1, [text |-> current_solution],
                               Returned(agni_score)) >>)
           /\ Emit([type |-> "iteration_complete", iteration |-> iteration + 1,
                    data |-> iteration_data])
    /\ pc' = "converge"
    /\ UNCHANGED << cfgVars, dbVars, auxVars, envVars, iteration, best_score, best_solution,
                    roundVars, store_calls, analytics_tasks, background, result, response >>

\* Mutant: the loop is left on plateau without the plateau_reached event.
generate_process_events_Converge_Silent ==
    /\ mode = "live" /\ pc = "converge"
    /\ LET agni_score == Last(iterations).agni_score
       IN  /\ IF Improves(agni_score, best_score)
              THEN best_score' = agni_score /\ best_solution' = current_solution
              ELSE UNCHANGED << best_score, best_solution >>
           /\ IF generate_process_events_Plateau(iterations, iteration, agni_score,
                                                 min_improvement)
              THEN /\ pc' = "store"
                   /\ UNCHANGED << iteration, events >>
              ELSE /\ iteration' = iteration + 1
                   /\ pc' = IF iteration + 1 < max_iterations
                            THEN "iteration_start" ELSE "store"
                   /\ UNCHANGED events
    /\ UNCHANGED << cfgVars, dbVars, auxVars, calls, envVars, iterations, roundVars, store_calls,
                    analytics_tasks, background, result, response >>

\* api.py 337-352: update the best, decide whether the loop goes on.
generate_process_events_Converge ==
    /\ mode = "live" /\ pc = "converge"
    /\ LET agni_score == Last(iterations).agni_score
       IN  /\ IF Improves(agni_score, best_score)
              THEN best_score' = agni_score /\ best_solution' = current_solution
              ELSE UNCHANGED << best_score, best_solution >>
           /\ IF generate_process_events_Plateau(iterations, iteration, agni_score,
                                                 min_improvement)
              THEN /\ Emit([type |-> "plateau_reached"])
                   /\ pc' = "store"
                   /\ UNCHANGED iteration
              ELSE /\ iteration' = iteration + 1
                   /\ pc' = IF iteration + 1 < max_iterations
                            THEN "iteration_start" ELSE "store"
                   /\ UNCHANGED events
    /\ UNCHANGED << cfgVars, dbVars, auxVars, calls, envVars, iterations, roundVars, store_calls,
                    analytics_tasks, background, result, response >>

\* api.py 354-365
generate_process_events_Store ==
    /\ mode = "live" /\ pc = "store"
    /\ IF ShouldStore(best_score)
       THEN /\ store_calls' =
                  Append(store_calls, StoreCall(best_solution, best_score, Len(iterations)))
            /\ \/ pc' = "end" /\ UNCHANGED events
               \/ generate_process_events_Except
       ELSE /\ pc' = "end"
            /\ UNCHANGED << store_calls, events >>
    /\ UNCHANGED << cfgVars, dbVars, auxVars, calls, envVars, sessVars, roundVars, analytics_tasks, background,
                    result, response >>

\* Mutant: the `end` event lists the last round only.
generate_process_events_End_LastOnly ==
    /\ mode = "live" /\ pc = "end"
    /\ Emit([type |-> "end",
             final_solution |-> best_solution,
             final_score |-> best_score,
             iterations |-> << Last(iterations) >>,
             total_iterations |-> Len(iterations),
             used_rag |-> request.use_rag])
    /\ pc' = "analytics"
    /\ UNCHANGED << cfgVars, dbVars, auxVars, calls, envVars, sessVars, roundVars, store_calls,
                    analytics_tasks, background, result, response >>

\* api.py 367-389: the `end` event, then the analytics submission.
generate_process_events_End ==
    /\ mode = "live" /\ pc = "end"
    /\ Emit([type |-> "end",
             final_solution |-> best_solution,
             final_score |-> best_score,
             iterations |-> iterations,
             total_iterations |-> Len(iterations),
             used_rag |-> request.use_rag])
    /\ pc' = "analytics"
    /\ UNCHANGED << cfgVars, dbVars, auxVars, calls, envVars, sessVars, roundVars, store_calls,
                    analytics_tasks, background, result, response >>

\* api.py 378-389
generate_process_events_Analytics ==
    /\ mode = "live" /\ pc = "analytics"
    /\ analytics_tasks' = analytics_tasks + 1
    /\ run_background_task
    /\ pc' = "done"
    /\ UNCHANGED << cfgVars, dbVars, auxVars, calls, envVars, sessVars, roundVars, events, store_calls,
                    result, response >>

\* The generator is suspended: at a yield whose event the consumer has
\* taken, or in the await of an adapter call.
Suspended ==
    \/ pc \in {"rag", "first_response_started", "stream", "sutra_started", "sutra",
               "agni", "improved", "evaluate", "converge", "analytics"}
    \/ pc = "memory" /\ request.use_rag
    \/ pc = "iteration_start" /\ iteration = 0 /\ past_examples > 0
    \/ pc = "store" /\ Last(events).type = "plateau_reached"

\* Mutant: the cancellation is handled by the `except Exception` clause.
generate_process_events_Cancel_Caught ==
    /\ mode = "live" /\ Suspended
    /\ Emit([type |-> "error", message |-> "cancelled", error |-> "cancelled"])
    /\ pc' = "cancelled"
    /\ UNCHANGED << cfgVars, dbVars, auxVars, calls, envVars, sessVars, roundVars, store_calls,
                    analytics_tasks, background, result, response >>

\* The client disconnects or the stream is closed: GeneratorExit is thrown
\* at the yield, or CancelledError into the await, where the generator is
\* suspended. Both are BaseException, which no `except Exception` of
\* api.py 131-393 or 402-411 matches: the generator ends there.
generate_process_events_Cancel ==
    /\ mode = "live" /\ Suspended
    /\ pc' = "cancelled"
    /\ UNCHANGED << cfgVars, dbVars, auxVars, calls, envVars, sessVars, roundVars, outVars >>

\* ------------------------------------------------------------ specification
Next ==
    \/ process_Retrieve
    \/ process_Yantra
    \/ process_Sutra
    \/ process_Agni
    \/ process_Evaluate
    \/ process_Store
    \/ process_Return
    \/ process_task
    \/ generate_process_events_Start
    \/ generate_process_events_Rag
    \/ generate_process_events_Memory
    \/ generate_process_events_IterationStart
    \/ generate_process_events_FirstResponseStarted
    \/ generate_process_events_Token
    \/ generate_process_events_StreamEnd
    \/ generate_process_events_SutraStarted
    \/ generate_process_events_Sutra
    \/ generate_process_events_Agni
    \/ generate_process_events_Improved
    \/ generate_process_events_Evaluate
    \/ generate_process_events_Converge
    \/ generate_process_events_Store
    \/ generate_process_events_End
    \/ generate_process_events_Analytics
    \/ generate_process_events_Cancel
    \/ run_background_task_safe_wrapper

Spec == Init /\ [][Next]_vars

\* Every await of the session returns or raises (httpx timeout of 60 s,
\* base_agent.py 74 and 111), and the event loop resumes the generator.
FairSpec == Spec /\ WF_vars(Next)

\* ------------------------------------------------------------ Smriti.store
TaskPool == {"t1", "t2"}
SolutionPool == {"s1", "s2"}
ScorePool == {650, 700, 800}

\* smriti.py 40-42: the md5 digest of the task text; distinct tasks of the
\* pool have distinct digests.
_hash_task(task) == << "md5", task >>

Row(id, task, solution, quality_score) ==
    [id |-> id, task_hash |-> _hash_task(task), task |-> task,
     solution |-> solution, quality_score |-> quality_score]

RowsOf(task_hash) == { r \in memories : r.task_hash = task_hash }

\* Mutant: an equal score overwrites the record as well.
store_ShouldUpdate_OrEqual(quality_score, existing) == quality_score >= existing

\* `if quality_score > existing[0]:` (smriti.py 64)
store_ShouldUpdate(quality_score, existing) == quality_score > existing

\* smriti.py 53-60: connect, SELECT quality_score ... WHERE task_hash = ?,
\* fetchone. The statement runs outside any transaction.
store_Select(c, task, solution, quality_score) ==
    /\ conn[c].pc # "selected"
    /\ Len(submitted) < MaxStores
    /\ submitted' = Append(submitted, [task |-> task, solution |-> solution,
                                       quality_score |-> quality_score])
    /\ conn' = [conn EXCEPT ![c] =
                   [pc |-> "selected", task |-> task, solution |-> solution,
                    quality_score |-> quality_score,
                    existing |->
                        IF RowsOf(_hash_task(task)) # {}
                        THEN << (CHOOSE r \in RowsOf(_hash_task(task)) : TRUE).quality_score >>
                        ELSE << >>]]
    /\ UNCHANGED << sessionVars, auxVars, memories >>

\* smriti.py 62-91: UPDATE when a row was read and the new score is higher,
\* INSERT when none was read, then commit. task_hash is UNIQUE (smriti.py
\* 27): an INSERT of a digest that is in the table raises IntegrityError.
store_Write(c) ==
    /\ conn[c].pc = "selected"
    /\ LET call == conn[c]
           h == _hash_task(call.task)
       IN  IF call.existing # << >>
           THEN /\ memories' =
                      IF store_ShouldUpdate(call.quality_score, call.existing[1])
                      THEN { IF r.task_hash = h
                             THEN [r EXCEPT !.solution = call.solution,
                                            !.quality_score = call.quality_score]
                             ELSE r : r \in memories }
                      ELSE memories
                /\ conn' = [conn EXCEPT ![c].pc = "done"]
           ELSE IF RowsOf(h) # {}
                THEN /\ conn' = [conn EXCEPT ![c].pc = "failed"]
                     /\ UNCHANGED memories
                ELSE /\ memories' = memories \cup
                            { Row(Cardinality(memories) + 1, call.task, call.solution,
                                  call.quality_score) }
                     /\ conn' = [conn EXCEPT ![c].pc = "done"]
    /\ UNCHANGED << sessionVars, auxVars, submitted >>

\* No caller is between its SELECT and its write.
Quiescent == \A c \in Writers : conn[c].pc # "selected"

\* The table and its callers, before any session has written.
SmritiInit ==
    /\ Init
    /\ mode = "aggregate"
    /\ request = [is_code |-> FALSE, use_rag |-> FALSE]
    /\ max_iterations = 1
    /\ min_improvement = DefaultMinImprovement

\* The calls follow one another: a call begins when the previous has returned.
SmritiSeqNext ==
    \E c \in Writers :
        \/ \E task \in TaskPool, solution \in SolutionPool, quality_score \in ScorePool :
               Quiescent /\ store_Select(c, task, solution, quality_score)
        \/ store_Write(c)

SmritiSeqSpec == SmritiInit /\ [][SmritiSeqNext]_vars

\* Independent callers (sessions of several server processes on one database
\* file): their statements interleave.
SmritiNext ==
    \E c \in Writers :
        \/ \E task \in TaskPool, solution \in SolutionPool, quality_score \in ScorePool :
               store_Select(c, task, solution, quality_score)
        \/ store_Write(c)

SmritiSpec == SmritiInit /\ [][SmritiNext]_vars

\* ------------------------------------------------------------------ claims
\* --------------------------------------------- event_generator and its reader
\* StreamingResponse(event_generator()) (api.py 402-420) asks the generator
\* for the next event only after the previous one has been sent. Once the
\* client has stopped reading and the transport's buffers are full the send
\* does not return, and generate_process_events stays suspended at its yield.
Blocked ==
    consumer.stalled /\ Len(events) - consumer.at >= MaxBuffered

\* The client stops reading the response (without closing the connection).
consumer_Stall ==
    /\ mode = "live" /\ ~consumer.stalled
    /\ pc \notin {"done", "cancelled"}
    /\ consumer' = [stalled |-> TRUE, at |-> Len(events)]
    /\ UNCHANGED << sessionVars, dbVars, stream, redis, probe >>

\* api.py 404-405: `async for event in generate_process_events(request): yield event`
event_generator ==
    /\ ~Blocked
    /\ \/ generate_process_events_Start
       \/ generate_process_events_Rag
       \/ generate_process_events_Memory
       \/ generate_process_events_IterationStart
       \/ generate_process_events_FirstResponseStarted
       \/ generate_process_events_Token
       \/ generate_process_events_StreamEnd
       \/ generate_process_events_SutraStarted
       \/ generate_process_events_Sutra
       \/ generate_process_events_Agni
       \/ generate_process_events_Improved
       \/ generate_process_events_Evaluate
       \/ generate_process_events_Converge
       \/ generate_process_events_Store
       \/ generate_process_events_End
       \/ generate_process_events_Analytics

ConsumerInit ==
    /\ Init
    /\ mode = "live"
    /\ request = [is_code |-> TRUE, use_rag |-> TRUE]
    /\ max_iterations = 2
    /\ min_improvement = DefaultMinImprovement

ConsumerNext ==
    \/ ~Blocked /\ generate_process_events_Start
    \/ ~Blocked /\ generate_process_events_Rag
    \/ ~Blocked /\ generate_process_events_Memory
    \/ ~Blocked /\ generate_process_events_IterationStart
    \/ ~Blocked /\ generate_process_events_FirstResponseStarted
    \/ ~Blocked /\ generate_process_events_Token
    \/ ~Blocked /\ generate_process_events_StreamEnd
    \/ ~Blocked /\ generate_process_events_SutraStarted
    \/ ~Blocked /\ generate_process_events_Sutra
    \/ ~Blocked /\ generate_process_events_Agni
    \/ ~Blocked /\ generate_process_events_Improved
    \/ ~Blocked /\ generate_process_events_Evaluate
    \/ ~Blocked /\ generate_process_events_Converge
    \/ ~Blocked /\ generate_process_events_Store
    \/ ~Blocked /\ generate_process_events_End
    \/ ~Blocked /\ generate_process_events_Analytics
    \/ consumer_Stall
    \/ generate_process_events_Cancel
    \/ run_background_task_safe_wrapper

\* The event loop runs the generator whenever it can run, and the adapters
\* answer; the client is free to stall, and to disconnect or not.
ConsumerSpec ==
    /\ ConsumerInit /\ [][ConsumerNext]_vars
    /\ WF_vars(event_generator)
    /\ WF_vars(run_background_task_safe_wrapper)

\* ------------------------------------------------- pure functions, called once
\* The properties a text can have for the Evaluator, and its words.
Features ==
    CodePatterns \cup {"structure", "import", "citation", "multiline", "markdown"}

Vocabulary == {"output", "sort"}

SeqsUpTo(S, n) == UNION { [1..k -> S] : k \in 0..n }

\* rag_chunks: Optional[List[str]]
ChunkLists == {NoChunks} \cup { Chunks(c) : c \in SeqsUpTo(SUBSET Vocabulary, MaxChunks) }

\* Evaluator.evaluate(solution, task, is_code, rag_chunks) on any text.
Evaluator_evaluate ==
    /\ probe = NoProbe
    /\ \E n \in 0..1, feats \in SUBSET Features, words \in SUBSET Vocabulary,
          is_code \in BOOLEAN, chunks \in ChunkLists :
          /\ (n = 0 => feats = {} /\ words = {})
          /\ probe' = [op |-> "evaluate",
                       solution |-> Text("", n, feats, words),
                       is_code |-> is_code,
                       rag_chunks |-> chunks,
                       scores |-> evaluate(Text("", n, feats, words), is_code, chunks)]
    /\ UNCHANGED << sessionVars, dbVars, consumer, stream, redis >>

\* api.py 190 and 263, as Python parses the chained conditional expression:
\* `A if c1 else (B if c2 else C)`.
token_limit(fast_mode, is_code) ==
    IF fast_mode THEN 512
    ELSE IF ~is_code THEN 1024
    ELSE (IF fast_mode THEN 384 ELSE 640)

generate_process_events_token_limit ==
    /\ probe = NoProbe
    /\ \E fast_mode \in BOOLEAN, is_code \in BOOLEAN :
          probe' = [op |-> "token_limit",
                    fast_mode |-> fast_mode,
                    is_code |-> is_code,
                    max_tokens |-> token_limit(fast_mode, is_code)]
    /\ UNCHANGED << sessionVars, dbVars, consumer, stream, redis >>

\* The round loop of either mode as a function of the texts the Improver is
\* scripted to return, round by round: the live loop (api.py 150-352) passes
\* the text through its fallbacks and tests the plateau its way, the
\* aggregate loop (orchestrator.py 68-137) its own way; both keep the best
\* round and return it (api.py 367-376, orchestrator.py 152-160).
RECURSIVE RoundLoop(_, _, _, _, _, _, _, _, _)
RoundLoop(live, script, is_code, chunks, max, minimp, its, best, best_sol) ==
    IF Len(its) >= max
    THEN [total_iterations |-> Len(its), final_score |-> best, final_solution |-> best_sol]
    ELSE LET it == Len(its)
             text == IF live THEN agni_output(script[it + 1]) ELSE script[it + 1]
             score == evaluate(text, is_code, chunks).total
             its1 == Append(its, [agni_output |-> text, score |-> score,
                                  agni_score |-> score])
             best1 == IF Improves(score, best) THEN score ELSE best
             best_sol1 == IF Improves(score, best) THEN text ELSE best_sol
             stop == IF live
                     THEN generate_process_events_Plateau(its1, it, score, minimp)
                     ELSE process_Plateau(its1, it, score, minimp)
         IN  IF stop
             THEN [total_iterations |-> Len(its1), final_score |-> best1,
                   final_solution |-> best_sol1]
             ELSE RoundLoop(live, script, is_code, chunks, max, minimp,
                            its1, best1, best_sol1)

SessionOutcome(live, script, is_code, chunks, max, minimp) ==
    RoundLoop(live, script, is_code, chunks, max, minimp, << >>, 0, NoneText)

\* One request served in both modes with the same scripted Improver texts.
process_and_generate_process_events ==
    /\ probe = NoProbe
    /\ \E script \in [1..MaxRounds -> ResponsePool], is_code \in BOOLEAN,
          max \in 1..MaxRounds, minimp \in MinImprovements :
          probe' = [op |-> "sessions",
                    script |-> script,
                    is_code |-> is_code,
                    max_iterations |-> max,
                    min_improvement |-> minimp,
                    aggregate |-> SessionOutcome(FALSE, script, is_code, NoChunks, max, minimp),
                    live |-> SessionOutcome(TRUE, script, is_code, NoChunks, max, minimp)]
    /\ UNCHANGED << sessionVars, dbVars, consumer, stream, redis >>

ProbeInit ==
    /\ Init
    /\ mode = "live"
    /\ request = [is_code |-> TRUE, use_rag |-> FALSE]
    /\ max_iterations = 1
    /\ min_improvement = DefaultMinImprovement

ProbeNext ==
    \/ Evaluator_evaluate
    \/ generate_process_events_token_limit
    \/ process_and_generate_process_events

ProbeSpec == ProbeInit /\ [][ProbeNext]_vars

\* ------------------------------------------- BaseAgent._call_ollama_stream
\* A line of the response body, by what the loop does with it: a record with
\* non-empty message content, one with empty content, a line that is not
\* JSON, an empty line.
LinePool == {"content", "empty", "invalid", "blank"}

\* What is left in the buffer after the last newline.
RestPool == {"none", "content", "invalid"}

Yield(line) == IF line = "content" THEN 1 ELSE 0

\* base_agent.py 111-116: the request is sent and the status is good.
_call_ollama_stream_Open ==
    /\ stream.pc = "idle"
    /\ stream' = [stream EXCEPT !.pc = "running"]
    /\ UNCHANGED << sessionVars, dbVars, consumer, redis, probe >>

\* base_agent.py 118-163, 182-184
_call_ollama_stream_Line ==
    /\ stream.pc = "running"
    /\ Len(stream.lines) < MaxLines
    /\ \E line \in LinePool :
          stream' = [stream EXCEPT !.lines = Append(@, line),
                                   !.yielded = @ + Yield(line)]
    /\ UNCHANGED << sessionVars, dbVars, consumer, redis, probe >>

\* Mutant: an error record raises.
_call_ollama_stream_Error_Raise ==
    /\ stream.pc = "running"
    /\ stream' = [stream EXCEPT !.lines = Append(@, "error"),
                                !.error = "record",
                                !.pc = "raised"]
    /\ UNCHANGED << sessionVars, dbVars, consumer, redis, probe >>

\* base_agent.py 145-149: `if "error" in data:` ... print ... `return`
_call_ollama_stream_Error ==
    /\ stream.pc = "running"
    /\ stream' = [stream EXCEPT !.lines = Append(@, "error"),
                                !.error = "record",
                                !.pc = "completed"]
    /\ UNCHANGED << sessionVars, dbVars, consumer, redis, probe >>

\* base_agent.py 152-180: a record with done=true, with or without content,
\* then what is left in the buffer.
_call_ollama_stream_Done ==
    /\ stream.pc = "running"
    /\ \E line \in {"content", "empty"}, rest \in RestPool :
          stream' = [stream EXCEPT !.lines = Append(@, "done"),
                                   !.yielded = @ + Yield(line) + Yield(rest),
                                   !.pc = "completed"]
    /\ UNCHANGED << sessionVars, dbVars, consumer, redis, probe >>

\* base_agent.py 186-195: the body ends without a done record; a record left
\* in the buffer without a newline is read for its content only.
_call_ollama_stream_EndOfBody ==
    /\ stream.pc = "running"
    /\ \E rest \in RestPool \cup {"error"} :
          stream' = [stream EXCEPT !.yielded = @ + Yield(rest),
                                   !.error = IF rest = "error" THEN "record" ELSE @,
                                   !.pc = "completed"]
    /\ UNCHANGED << sessionVars, dbVars, consumer, redis, probe >>

\* base_agent.py 202-205: connection, status or read failure
_call_ollama_stream_Except ==
    /\ stream.pc \in {"idle", "running"}
    /\ stream' = [stream EXCEPT !.error = "transport", !.pc = "raised"]
    /\ UNCHANGED << sessionVars, dbVars, consumer, redis, probe >>

\* base_agent.py 196-201: the consumer closes the generator
_call_ollama_stream_GeneratorExit ==
    /\ stream.pc = "running"
    /\ stream' = [stream EXCEPT !.pc = "closed"]
    /\ UNCHANGED << sessionVars, dbVars, consumer, redis, probe >>

StreamInit ==
    /\ Init
    /\ mode = "live"
    /\ request = [is_code |-> TRUE, use_rag |-> FALSE]
    /\ max_iterations = 1
    /\ min_improvement = DefaultMinImprovement

StreamNext ==
    \/ _call_ollama_stream_Open
    \/ _call_ollama_stream_Line
    \/ _call_ollama_stream_Error
    \/ _call_ollama_stream_Done
    \/ _call_ollama_stream_EndOfBody
    \/ _call_ollama_stream_Except
    \/ _call_ollama_stream_GeneratorExit

StreamSpec == StreamInit /\ [][StreamNext]_vars

\* ------------------------------------------------- Smriti.retrieve_similar
\* The task texts of the store and set(task.lower().split()) of each.
RecallTasks == TaskPool \cup {"t3"}

TaskWords(task) ==
    IF task = "t1" THEN {"sort"}
    ELSE IF task = "t2" THEN {"sort", "output"}
    ELSE {"output"}

\* smriti.py 126-129: Jaccard similarity, in thousandths
Jaccard(a, b) ==
    IF Cardinality(a \cup b) > 0
    THEN (Cardinality(a \cap b) * 1000) \div Cardinality(a \cup b)
    ELSE 0

Orders(S) ==
    { f \in [1..Cardinality(S) -> S] : \A x \in S : \E i \in DOMAIN f : f[i] = x }

\* list.sort(key, reverse=True): descending by key, equal keys in the order
\* they had.
StableSortDesc(seq, Key(_)) ==
    LET order == CHOOSE f \in Orders(DOMAIN seq) :
                     \A i, j \in DOMAIN f :
                         i < j => \/ Key(seq[f[i]]) > Key(seq[f[j]])
                                  \/ Key(seq[f[i]]) = Key(seq[f[j]]) /\ f[i] < f[j]
    IN  [i \in DOMAIN seq |-> seq[order[i]]]

\* smriti.py 93-138: the lists the call can return. The SELECT keeps the
\* rows with quality_score >= min_score, ordered by quality_score DESC (rows
\* of equal score in an order SQL leaves open), LIMIT limit * 2; the rows
\* with similarity > 0.2 are sorted by (similarity, quality_score) and cut to
\* `limit`.
retrieve_similar(rows, task, limit, min_score) ==
    LET passing == { r \in rows : r.quality_score >= min_score }
        selects == { o \in Orders(passing) :
                        \A i, j \in DOMAIN o :
                            i < j => o[i].quality_score >= o[j].quality_score }
        Similarity(r) == Jaccard(TaskWords(task), TaskWords(r.task))
        Key(r) == Similarity(r) * 10000 + r.quality_score
        Result(o) ==
            LET results == SubSeq(o, 1, Min(limit * 2, Len(o)))
                similar == SelectSeq(results, LAMBDA r : Similarity(r) > 200)
                sorted == StableSortDesc(similar, Key)
            IN  SubSeq(sorted, 1, Min(limit, Len(sorted)))
    IN  { Result(o) : o \in selects }

\* A lookup, after the store calls made so far have returned.
Smriti_retrieve_similar ==
    /\ probe = NoProbe /\ Quiescent
    /\ \E task \in RecallTasks, limit \in 1..MaxLimit :
          \E similar \in retrieve_similar(memories, task, limit, MinScore) :
              probe' = [op |-> "retrieve_similar", task |-> task, limit |-> limit,
                        similar |-> similar]
    /\ UNCHANGED << sessionVars, dbVars, consumer, stream, redis >>

\* One process stores, call after call, then looks a task up.
RecallNext ==
    \/ \E task \in RecallTasks, quality_score \in ScorePool :
          /\ probe = NoProbe /\ Quiescent
          /\ store_Select(1, task, "s1", quality_score)
    \/ store_Write(1)
    \/ Smriti_retrieve_similar

RecallSpec == SmritiInit /\ [][RecallNext]_vars

\* ------------------------------------------------------- AnalyticsTracker
\* redis.task_ids is the sorted set "analytics:task_ids", kept in ascending
\* order of score as Redis keeps it; redis.tasks holds the ids with a hash
\* analytics:task:{id}, redis.iterations the pairs with a hash
\* analytics:iteration:{id}:{n}, redis.iteration_sets the members of the sets
\* analytics:task:{id}:iterations.

\* ZADD key score member, for a member not yet in the set
zadd(zset, member, score) ==
    LET before == Cardinality({ i \in DOMAIN zset : zset[i].score <= score })
    IN  SubSeq(zset, 1, before) \o << [member |-> member, score |-> score] >>
            \o SubSeq(zset, before + 1, Len(zset))

\* ZREVRANGE key start stop: the members from the highest score down
zrevrange(zset, start, stop) ==
    LET last == IF stop < Len(zset) - 1 THEN stop ELSE Len(zset) - 1
    IN  [i \in 1..(last - start + 1) |-> zset[Len(zset) - start - i + 1].member]

\* tracker.py 185-196
_get_task_ids(r, limit) == zrevrange(r.task_ids, 0, limit - 1)

\* tracker.py 158-183
_cleanup_old_tasks(r, keep_count) ==
    LET task_ids == _get_task_ids(r, keep_count)
    IN  IF Len(task_ids) > keep_count
        THEN LET all_task_ids == _get_task_ids(r, 10000)
                 old_task_ids ==
                     { all_task_ids[i] : i \in (keep_count + 1)..Len(all_task_ids) }
             IN  [r EXCEPT
                    !.tasks = @ \ old_task_ids,
                    !.task_ids = SelectSeq(@, LAMBDA m : m.member \notin old_task_ids),
                    !.iterations = { it \in @ : it[1] \notin old_task_ids },
                    !.iteration_sets = { it \in @ : it[1] \notin old_task_ids }]
        ELSE r

\* tracker.py 58-156, with the store available; timestamp is the time of the
\* call, which grows from call to call like the counter does.
record_task(n_iterations) ==
    /\ redis.task_counter < MaxRecords
    /\ LET task_id == redis.task_counter + 1
           timestamp == task_id
           stored == [task_counter |-> task_id,
                      tasks |-> redis.tasks \cup {task_id},
                      task_ids |-> zadd(redis.task_ids, task_id, timestamp),
                      iterations |->
                          redis.iterations \cup { << task_id, n >> : n \in 1..n_iterations },
                      iteration_sets |->
                          redis.iteration_sets \cup { << task_id, n >> : n \in 1..n_iterations }]
       IN  redis' = _cleanup_old_tasks(stored, KeepCount)
    /\ UNCHANGED << sessionVars, dbVars, consumer, stream, probe >>

TrackerInit ==
    /\ Init
    /\ mode = "live"
    /\ request = [is_code |-> TRUE, use_rag |-> FALSE]
    /\ max_iterations = 1
    /\ min_improvement = DefaultMinImprovement

TrackerNext ==
    \E n_iterations \in 1..MaxRounds :
        /\ (redis.task_counter >= MaxVaried => n_iterations = 1)
        /\ record_task(n_iterations)

TrackerSpec == TrackerInit /\ [][TrackerNext]_vars

MaxOf(S) == CHOOSE x \in S : \A y \in S : y <= x

Scores(its) == { its[i].score : i \in DOMAIN its }

Types == { events[i].type : i \in DOMAIN events }

EndEvents == { i \in DOMAIN events : events[i].type = "end" }

\* The update of api.py 337-340 has run for every round in `iterations`: the
\* generator is not at the yield of api.py 331 and was not cancelled there.
RoundSettled ==
    ~(/\ mode = "live"
      /\ \/ pc = "converge"
         \/ pc = "cancelled" /\ events # << >>
                             /\ Last(events).type = "iteration_complete")

\* post_score[k] - post_score[k-1] < min_improvement, for a round k > 1
PlateauAt(its, k) == k > 1 /\ its[k].score - its[k - 1].score < min_improvement

\* C1: in both modes best_score never decreases, after every completed round
\* it is the maximum score of the rounds completed so far, and the final_score
\* of the SessionResult and of the `end` event is that maximum.
C1_BestScore ==
    /\ [][best_score' >= best_score]_vars
    /\ [](RoundSettled /\ iterations # << >> => best_score = MaxOf(Scores(iterations)))
    /\ [](result.status = "returned" /\ result.iterations # << >>
            => result.final_score = MaxOf(Scores(result.iterations)))
    /\ [](\A i \in EndEvents : events[i].iterations # << >>
            => events[i].final_score = MaxOf(Scores(events[i].iterations)))

\* C1 witness: a live session ended whose last round scored below the best.
C1_Witness ==
    /\ mode = "live" /\ pc = "done"
    /\ Len(iterations) >= 2
    /\ Last(events).type = "end"
    /\ Last(iterations).score < Last(events).final_score
    /\ best_score = iterations[1].score

\* C2 (as claimed): a live session whose every round gains at least
\* min_improvement runs max_iterations rounds without plateau_reached, and
\* plateau_reached after round n means n > 1 and a gain below min_improvement.
C2_LivePlateauRule ==
    mode = "live" =>
        /\ "plateau_reached" \in Types => PlateauAt(iterations, Len(iterations))
        /\ (/\ "end" \in Types
            /\ \A k \in 2..Len(iterations) : ~PlateauAt(iterations, k))
           => Len(iterations) = max_iterations /\ "plateau_reached" \notin Types

\* The loop of Orchestrator.process is running / has been left.
ProcessInLoop == mode = "aggregate" /\ pc \in {"yantra", "sutra", "agni", "evaluate"}

ProcessLoopLeft ==
    /\ mode = "aggregate"
    /\ iterations # << >>
    /\ \/ pc \in {"store", "return"}
       \/ result.status = "returned"
       \/ store_calls # << >>

\* C3: in aggregate mode the loop goes on after round k exactly when k is
\* below max_iterations and the plateau rule, taken against the preceding
\* round's score, does not hold at k.
C3_AggregatePlateauRule ==
    /\ ProcessInLoop => \A k \in 1..Len(iterations) : ~PlateauAt(iterations, k)
    /\ ProcessLoopLeft =>
          /\ \A k \in 1..(Len(iterations) - 1) : ~PlateauAt(iterations, k)
          /\ Len(iterations) < max_iterations => PlateauAt(iterations, Len(iterations))
          /\ Len(iterations) <= max_iterations

\* C3 witness: two rounds of a three-round budget, the second gaining less
\* than the default threshold although not less than nothing.
C3_Witness ==
    /\ ProcessLoopLeft /\ result.status = "returned"
    /\ max_iterations = 3 /\ min_improvement = DefaultMinImprovement
    /\ Len(iterations) = 2
    /\ iterations[2].score - iterations[1].score \in 0..(DefaultMinImprovement - 1)

\* The event types of one round, in the order api.py 160-335 yields them.
RoundOrder ==
    << "iteration_start", "first_response_started", "token",
       "first_response_complete", "sutra_started", "improving_started",
       "improved_token", "improved", "iteration_complete" >>

RoundTypes == { RoundOrder[j] : j \in DOMAIN RoundOrder }

Position(t) == CHOOSE j \in DOMAIN RoundOrder : RoundOrder[j] = t

\* The round an event belongs to: the iteration_start events up to it.
RoundOf(i) == Cardinality({ j \in 1..i : events[j].type = "iteration_start" })

\* b may come directly after a inside a round.
FollowsInRound(a, b) ==
    \/ Position(b) = Position(a) + 1
    \/ a = "token" /\ b = "token"
    \/ a = "first_response_started" /\ b = "first_response_complete"

\* C4: in live mode the events of round n come in the order iteration_start,
\* first_response_started, token*, first_response_complete, sutra_started,
\* improving_started, improved_token, improved, iteration_complete, each
\* carrying iteration n, and round n+1 starts only after round n's
\* iteration_complete.
C4_RoundEventOrder ==
    mode = "live" =>
      \A i \in DOMAIN events :
        LET a == events[i].type IN
        /\ (a \in RoundTypes \ {"first_response_started"})
              => events[i].iteration = RoundOf(i)
        /\ (a \in RoundTypes \ {"iteration_complete"} /\ i < Len(events)
                /\ events[i + 1].type # "error")
              => /\ events[i + 1].type \in RoundTypes
                 /\ FollowsInRound(a, events[i + 1].type)
        /\ (a = "iteration_start" /\ RoundOf(i) > 1)
              => /\ events[i - 1].type = "iteration_complete"
                 /\ events[i - 1].iteration = RoundOf(i) - 1
        /\ (a \in RoundTypes \ {"iteration_start"})
              => i > 1 /\ events[i - 1].type \in RoundTypes
                       /\ FollowsInRound(events[i - 1].type, a)

\* C4 witness: a finished two-round stream with and without tokens.
C4_Witness ==
    /\ mode = "live" /\ pc = "done"
    /\ Last(events).type = "end"
    /\ \E i, j \in DOMAIN events :
          /\ events[i].type = "iteration_start" /\ events[i].iteration = 2
          /\ events[i + 1].type = "first_response_started"
          /\ events[i + 2].type = "first_response_complete"
          /\ events[j].type = "token" /\ events[j].iteration = 1

Terminals == { i \in DOMAIN events : events[i].type \in {"end", "error"} }

\* C5: a live session emits at most one terminal event (`end` or `error`),
\* nothing after it, and, unless it is cancelled, eventually does emit one,
\* whichever adapter calls fail.
C5_OneTerminalEvent ==
    /\ [](mode = "live" =>
            /\ Cardinality(Terminals) <= 1
            /\ \A i \in Terminals : i = Len(events))
    /\ <>(mode = "live" => (Cardinality(Terminals) = 1 \/ pc = "cancelled"))

\* C5 witness: a stream closed by `error` after a completed round, the
\* generator finished.
C5_Witness ==
    /\ mode = "live" /\ pc = "done"
    /\ Last(events).type = "error"
    /\ Len(iterations) >= 1
    /\ Cardinality(Terminals) = 1

\* The session went past its store step without an exception.
NormalStopPassed ==
    \/ mode = "live" /\ (pc \in {"end", "analytics"} \/ "end" \in Types)
    \/ mode = "aggregate" /\ (pc = "return" \/ result.status = "returned")

RoundInProgress ==
    pc \in {"start", "rag", "memory", "iteration_start", "first_response_started",
            "stream", "sutra_started", "sutra", "agni", "improved", "evaluate",
            "converge", "retrieve", "yantra"}

\* C6: a session that reaches its normal stop calls Memory store exactly when
\* best_score > 0.6, and then once, with best_score and best_solution, the
\* improved text of the round that scored best_score; no call is made
\* before the stop.
C6_StoreIffAboveFloor ==
    /\ Len(store_calls) <= 1
    /\ \A c \in DOMAIN store_calls :
          /\ ~RoundInProgress
          /\ store_calls[c].quality_score > PersistFloor
          /\ store_calls[c].quality_score = best_score
          /\ store_calls[c].quality_score = MaxOf(Scores(iterations))
          /\ store_calls[c].solution = best_solution
          /\ store_calls[c].metadata.iterations = Len(iterations)
          /\ \E k \in DOMAIN iterations :
                /\ iterations[k].agni_output = store_calls[c].solution
                /\ iterations[k].score = store_calls[c].quality_score
    /\ NormalStopPassed => (Len(store_calls) = 1 <=> best_score > PersistFloor)

\* C6 witness: one store call after `end`, carrying round 1's text although
\* round 2 came later with a lower score.
C6_Witness ==
    /\ mode = "live" /\ "end" \in Types
    /\ Len(store_calls) = 1
    /\ Len(iterations) = 2
    /\ store_calls[1].solution = iterations[1].agni_output
    /\ store_calls[1].solution # iterations[2].agni_output
    /\ iterations[2].score < store_calls[1].quality_score
    /\ store_calls[1].quality_score < PersistFloor + 100

\* The Generator stream raised in round n: `error` right after that round's
\* first_response_started or one of its tokens.
GeneratorFailedInRound(n) ==
    \E i \in DOMAIN events :
        /\ events[i].type = "error"
        /\ i > 1
        /\ events[i - 1].type \in {"first_response_started", "token"}
        /\ RoundOf(i) = n

\* C7 (as claimed): with max_iterations = 3 a Generator failure in round 2 of
\* a live session still ends the stream with `end`, total_iterations = 3 and
\* a final_solution that is not null.
C7_GeneratorFailureStillEnds ==
    (mode = "live" /\ max_iterations = 3 /\ pc = "done" /\ GeneratorFailedInRound(2))
        => /\ Last(events).type = "end"
           /\ Last(events).total_iterations = 3
           /\ Last(events).final_solution # NoneText

\* C8 (as claimed): in aggregate mode a failing Generator, Critic or Improver
\* call never makes Orchestrator.process raise: the call goes on to its stop
\* decision.
C8_ProcessNeverRaises ==
    [][(mode = "aggregate" /\ pc \in {"yantra", "sutra", "agni"})
          => (result'.status # "raised" /\ pc' \in {"sutra", "agni", "evaluate"})]_vars

Placeholders == {UnableText, ErrorText}

\* C9: in live mode improving_started is always followed by one improved_token
\* whose text is never empty (a placeholder when the Improver raised or
\* returned nothing), then by one improved event with the same text, then by
\* iteration_complete recording that text; no `error` comes out of the
\* Improver's failure.
C9_ImproverFailureRecovered ==
    mode = "live" =>
      \A i \in DOMAIN events :
        /\ (events[i].type = "improving_started" /\ i < Len(events))
              => events[i + 1].type = "improved_token"
        /\ events[i].type = "improved_token" =>
              /\ Truthy(events[i].token)
              /\ events[i].token \in Placeholders \/ events[i].token.lit = ""
              /\ \A j \in DOMAIN events :
                    (events[j].type = "improved_token"
                        /\ events[j].iteration = events[i].iteration) => j = i
              /\ i + 1 <= Len(events) =>
                    /\ events[i + 1].type = "improved"
                    /\ events[i + 1].improved_output = events[i].token
                    /\ events[i + 1].solution = events[i].token
                    /\ events[i + 1].iteration = events[i].iteration
              /\ i + 2 <= Len(events) =>
                    /\ events[i + 2].type = "iteration_complete"
                    /\ events[i + 2].data.agni_output = events[i].token
              /\ i + 3 <= Len(events) =>
                    \/ events[i + 3].type \in {"iteration_start", "plateau_reached", "end"}
                    \/ events[i + 3].type = "error" /\ store_calls # << >>

\* C9 witness: round 1 recovered from a raising Improver, round 2 from an
\* empty response, and the stream ended with `end`.
C9_Witness ==
    /\ mode = "live" /\ pc = "done"
    /\ Last(events).type = "end"
    /\ Len(iterations) = 2
    /\ iterations[1].agni_output = ErrorText
    /\ iterations[2].agni_output = UnableText
    /\ \E i \in DOMAIN events :
          /\ events[i].type = "improved_token" /\ events[i].token = ErrorText
          /\ events[i + 1].type = "improved" /\ events[i + 1].solution = ErrorText
          /\ events[i + 2].type = "iteration_complete"

\* C10 (as claimed): a round whose improved text is a substituted placeholder
\* is recorded with post_score = 0.
C10_PlaceholderScoresZero ==
    \A k \in DOMAIN iterations :
        iterations[k].agni_output \in Placeholders => iterations[k].score = 0

\* ---------------------------------------------------------------- C11
\* The round data the consumer has received before event i.
HistoryBefore(i) ==
    LET ics == SelectSeq(SubSeq(events, 1, i - 1),
                         LAMBDA e : e.type = "iteration_complete")
    IN  [j \in DOMAIN ics |-> ics[j].data]

\* C11 as stated: an `error` event that follows k >= 1 completed rounds
\* carries the history of those k rounds in its payload.
C11_ErrorCarriesHistory ==
    \A i \in DOMAIN events :
        (events[i].type = "error" /\ Len(iterations) >= 1)
            => /\ "iterations" \in DOMAIN events[i]
               /\ events[i].iterations = iterations

\* C11 amended: the `error` event carries the failure's message and nothing
\* else; the k completed rounds have reached the consumer before it, one
\* `iteration_complete` event per round, in order, each with its round's data.
C11_ErrorCarriesMessageOnly ==
    \A i \in DOMAIN events :
        events[i].type = "error"
            => /\ DOMAIN events[i] = {"type", "message", "error"}
               /\ HistoryBefore(i) = iterations

C11_Witness ==
    /\ mode = "live" /\ pc = "done"
    /\ Last(events).type = "error"
    /\ Len(iterations) >= 1
    /\ HistoryBefore(Len(events)) = iterations

\* ---------------------------------------------------------------- C12
\* C12 as stated: a Memory store call that raises is swallowed; the session
\* that issued a store call still ends with `end` (live) or returns its
\* result (aggregate).
C12_StoreFailureSwallowed ==
    (pc = "done" /\ store_calls # << >>)
        => IF mode = "live"
           THEN Last(events).type = "end" /\ "error" \notin Types
           ELSE result.status = "returned" /\ response = 200

\* ---------------------------------------------------------------- C13
\* Round n has started and its iteration_complete has not been emitted.
MidRound(n) ==
    /\ events # << >>
    /\ RoundOf(Len(events)) = n
    /\ Last(events).type \in RoundTypes \ {"iteration_complete"}

\* C13: when a live session is cancelled while round 2 is in progress, the
\* cancellation emits nothing, no iteration_complete of round 2 is in the
\* stream, Memory store has not been and is not called, and a cancelled
\* session emits no event and makes no store call ever after.
C13_CancelMidRound2 ==
    [][ /\ (pc # "cancelled" /\ pc' = "cancelled" /\ MidRound(2))
            => /\ events' = events
               /\ store_calls = << >> /\ store_calls' = << >>
               /\ \A i \in DOMAIN events' :
                     ~(events'[i].type = "iteration_complete" /\ events'[i].iteration = 2)
        /\ pc = "cancelled"
            => /\ pc' = "cancelled"
               /\ events' = events
               /\ store_calls' = store_calls ]_vars

\* C13 witness: cancelled in round 2 while the Critic call was awaited, after
\* a first round good enough to be stored.
C13_Witness ==
    /\ mode = "live" /\ pc = "cancelled"
    /\ MidRound(2)
    /\ Last(events).type = "sutra_started"
    /\ best_score > PersistFloor
    /\ store_calls = << >>

\* ---------------------------------------------------------------- C14
\* C14: run_background_task returns with the task created and not yet run,
\* and the request goes on to its normal end; the later run of the task,
\* whether func returns or raises, changes nothing of the request: its
\* events, its result and its HTTP status stay what they were.
C14_BackgroundNeverReachesRequest ==
    [][ /\ Len(background') > Len(background)
            => /\ Last(background') = Task("pending", 0)
               /\ pc' = "done"
               /\ events' = events /\ result' = result
               /\ mode = "aggregate" => response' = 200
        /\ (Len(background') = Len(background) /\ background' # background)
            => UNCHANGED << pc, events, result, response, iterations, store_calls >>
      ]_vars

\* C14 witness: a live stream that ended with `end`, its analytics task
\* having raised afterwards.
C14_Witness ==
    /\ mode = "live" /\ pc = "done"
    /\ Last(events).type = "end"
    /\ background = << Task("failed", 1) >>

\* ---------------------------------------------------------------- C15
\* C15: every submitted operation is run at most once; an operation that has
\* run, failed or not, is never pending again.
C15_AtMostOnce ==
    \A i \in DOMAIN background :
        /\ background[i].runs <= 1
        /\ background[i].status = "pending" <=> background[i].runs = 0

\* C15 witness: a returned aggregate request whose analytics task failed on
\* its only run.
C15_Witness ==
    /\ mode = "aggregate" /\ response = 200
    /\ background = << Task("failed", 1) >>

\* ---------------------------------------------------------------- C16
\* C16 as stated, for the sessions that started round 1: when the terminal
\* event (live) or the result (aggregate) is produced, the history holds
\* between 1 and max_iterations rounds.
C16_RoundCount ==
    /\ (mode = "live" /\ Terminals # {} /\ "iteration_start" \in Types)
           => (1 <= Len(iterations) /\ Len(iterations) <= max_iterations)
    /\ (mode = "aggregate" /\ result.status = "returned")
           => (1 <= result.total_iterations /\ result.total_iterations <= max_iterations)

\* ---------------------------------------------------------------- C17
SubmittedFor(task) == SelectSeq(submitted, LAMBDA x : x.task = task)

MaxSubmitted(subs) == MaxOf({ subs[i].quality_score : i \in DOMAIN subs })

FirstAtMax(subs) ==
    subs[CHOOSE i \in DOMAIN subs :
            /\ subs[i].quality_score = MaxSubmitted(subs)
            /\ \A j \in 1..(i - 1) : subs[j].quality_score < MaxSubmitted(subs)]

\* C17: with Smriti.store calls made one after another, a task digest never
\* has two rows, and once the calls made so far have returned the row of a
\* task carries the highest score submitted for it and the solution of the
\* first call that submitted that score.
C17_OneRecordBestScore ==
    \A task \in TaskPool :
        LET subs == SubmittedFor(task)
            rows == RowsOf(_hash_task(task))
        IN  /\ Cardinality(rows) <= 1
            /\ Quiescent =>
                  IF subs = << >> THEN rows = {}
                  ELSE \E r \in rows :
                          /\ r.quality_score = MaxSubmitted(subs)
                          /\ r.solution = FirstAtMax(subs).solution

\* C17 witness: three calls for one task: the maximum, then a lower score,
\* then the maximum again with another solution; the first solution is kept.
C17_Witness ==
    /\ Quiescent /\ Len(submitted) = 3
    /\ \A i \in 1..3 : submitted[i].task = "t1"
    /\ submitted[1].quality_score = 800 /\ submitted[2].quality_score = 650
    /\ submitted[3].quality_score = 800
    /\ submitted[3].solution # submitted[1].solution
    /\ \E r \in memories : r.solution = submitted[1].solution /\ r.quality_score = 800

\* ---------------------------------------------------------------- C18
\* C18 as stated: however concurrent Smriti.store calls for one task
\* interleave, no call fails, a digest has one row once a call for it has
\* returned, that row carries the highest submitted score with a solution
\* submitted with that score, and a row's score never decreases.
C18_StoreIsolated ==
    /\ [](/\ \A c \in Writers : conn[c].pc # "failed"
          /\ \A task \in TaskPool :
                LET subs == SubmittedFor(task)
                    rows == RowsOf(_hash_task(task))
                IN  /\ Cardinality(rows) <= 1
                    /\ (Quiescent /\ subs # << >>) =>
                          \E r \in rows :
                             /\ r.quality_score = MaxSubmitted(subs)
                             /\ \E i \in DOMAIN subs :
                                   /\ subs[i].quality_score = r.quality_score
                                   /\ subs[i].solution = r.solution)
    /\ [][\A r \in memories : \A q \in memories' :
              q.id = r.id => q.quality_score >= r.quality_score]_vars

\* ---------------------------------------------------------------- C19
\* C19: every Generator call comes after the Memory lookup has returned and,
\* when retrieval is enabled, after the Retriever call; the Generator call of
\* round 1 is given the past solutions the lookup returned, the Generator
\* calls of later rounds none.
C19_RetrievalBeforeGenerator ==
    \A i \in DOMAIN calls :
        calls[i].adapter = "generator"
            => /\ \E j \in 1..(i - 1) :
                     calls[j].adapter = "memory" /\ calls[j].out = Returned(past_examples)
               /\ request.use_rag
                     => \E j \in 1..(i - 1) :
                           calls[j].adapter = "retriever" /\ calls[j].out = Returned(rag_chunks)
               /\ calls[i].args.examples =
                     IF calls[i].iteration = 1 THEN past_examples ELSE 0

\* C19 witness: with retrieval enabled and a past solution found, a second
\* aggregate round whose Generator call got no past solution.
C19_Witness ==
    /\ mode = "aggregate" /\ request.use_rag /\ past_examples > 0
    /\ \E i, j \in DOMAIN calls :
          /\ calls[i].adapter = "generator" /\ calls[i].iteration = 1
          /\ calls[i].args.examples = past_examples
          /\ calls[j].adapter = "generator" /\ calls[j].iteration = 2
          /\ calls[j].args.examples = 0

\* ---------------------------------------------------------------- C20
RoundCalls(n) == SelectSeq(calls, LAMBDA c : c.iteration = n)

Adapters(cs) == [i \in DOMAIN cs |-> cs[i].adapter]

IsPrefix(a, b) == Len(a) <= Len(b) /\ a = SubSeq(b, 1, Len(a))

StatedOrder == << "generator", "scorer", "critic", "improver", "scorer" >>

\* orchestrator.py 78-115 makes one Evaluator call per round, on the
\* improved text.
AggregateOrder == << "generator", "critic", "improver", "scorer" >>

\* What the calls of a round are given, as far as the round has come.
RoundInputs(cs) ==
    \A i \in DOMAIN cs :
        /\ cs[i].adapter = "critic" => cs[i].args.draft = cs[1].out.value
        /\ cs[i].adapter = "improver" =>
              \E k \in 1..(i - 1) :
                 /\ cs[k].adapter = "critic"
                 /\ cs[i].args = [draft |-> cs[1].out.value,
                                  critique |-> cs[k].out.value]

EventsOf(type, n) ==
    { i \in DOMAIN events : events[i].type = type /\ events[i].iteration = n }

\* C21: in live mode an improved_token event carries the whole improved text
\* and is directly followed by an improved event with the same text in
\* improved_output and in solution, the same iteration and the same
\* token_count (unless the session was cancelled between the two); a round
\* has at most one of each, a completed round exactly one of each, carrying
\* the text recorded as the round's improved text.
C21_ImprovedPair ==
    mode = "live" =>
        /\ \A i \in DOMAIN events :
              /\ events[i].type = "improved_token" =>
                    IF i = Len(events) THEN pc \in {"improved", "cancelled"}
                    ELSE /\ events[i + 1].type = "improved"
                         /\ events[i + 1].improved_output = events[i].token
                         /\ events[i + 1].solution = events[i].token
                         /\ events[i + 1].iteration = events[i].iteration
                         /\ events[i + 1].token_count = events[i].token_count
              /\ events[i].type = "improved" =>
                    i > 1 /\ events[i - 1].type = "improved_token"
        /\ \A n \in 1..MaxRounds :
              /\ Cardinality(EventsOf("improved_token", n)) <= 1
              /\ Cardinality(EventsOf("improved", n)) <= 1
              /\ n <= Len(iterations) =>
                    \E i \in EventsOf("improved_token", n) :
                        /\ events[i].token = iterations[n].agni_output
                        /\ i + 1 \in EventsOf("improved", n)

\* C21 witness: two completed rounds, the second with a text the Improver
\* returned, sent once as improved_token and once as improved.
C21_Witness ==
    /\ mode = "live" /\ Len(iterations) = 2
    /\ iterations[2].agni_output \in ResponsePool
    /\ \E i \in EventsOf("improved_token", 2) :
          /\ events[i].token = iterations[2].agni_output
          /\ events[i].token_count > 0
          /\ events[i + 1].type = "improved"

\* ---------------------------------------------------------------- C22
EarliestAt(its, score) ==
    CHOOSE k \in DOMAIN its :
        its[k].score = score /\ \A j \in 1..(k - 1) : its[j].score # score

\* C22: best_solution changes only in a step that raises best_score, and
\* once a round's update has run it is the improved text of the earliest
\* completed round whose score equals best_score.
C22_BestSolutionEarliest ==
    /\ [][best_solution' # best_solution => best_score' > best_score]_vars
    /\ []((RoundSettled /\ iterations # << >>) =>
            /\ \E k \in DOMAIN iterations : iterations[k].score = best_score
            /\ best_solution = iterations[EarliestAt(iterations, best_score)].agni_output)

\* C22 witness: round 2 ties with round 1 with another text; round 1's text
\* is kept.
C22_Witness ==
    /\ pc = "done" /\ Len(iterations) = 2
    /\ iterations[1].score = iterations[2].score
    /\ iterations[1].agni_output # iterations[2].agni_output
    /\ best_solution = iterations[1].agni_output
    /\ best_score = iterations[2].score

\* ---------------------------------------------------------------- C23
\* C23 as stated: when the last permitted round gains less than
\* min_improvement over the round before it, no plateau_reached is emitted.
C23_PlateauOnlyWhenEarly ==
    (/\ mode = "live" /\ RoundSettled
     /\ Len(iterations) = max_iterations
     /\ PlateauAt(iterations, Len(iterations)))
        => "plateau_reached" \notin Types

\* ---------------------------------------------------------------- C24
\* C24: with max_iterations >= 2 the step that settles round 1 goes on to
\* round 2 whatever round 1 scored, the loop is left only with two rounds or
\* more in the history, and plateau_reached never belongs to round 1.
C24_NoStopAfterRound1 ==
    /\ [][(max_iterations >= 2 /\ iteration = 0)
             => /\ (mode = "live" /\ pc = "converge" /\ pc' # "cancelled")
                      => pc' = "iteration_start" /\ iteration' = 1
                /\ (mode = "aggregate" /\ pc = "evaluate")
                      => pc' = "yantra" /\ iteration' = 1]_vars
    /\ []((max_iterations >= 2 /\ (pc \in {"store", "end", "return"} \/ NormalStopPassed))
             => Len(iterations) >= 2)
    /\ [](\A i \in DOMAIN events : events[i].type = "plateau_reached" => RoundOf(i) >= 2)

\* C24 witness: an empty draft and the lowest score in round 1, and a second
\* round completed.
C24_Witness ==
    /\ Len(iterations) = 2
    /\ ~Truthy(iterations[1].yantra_output)
    /\ iterations[1].score <= 500
    /\ iterations[1].agni_output \in Placeholders

ScoreFields(sc) == { sc[f] : f \in DOMAIN sc }

\* C28: whatever the text, the task kind and the retrieved chunks,
\* Evaluator.evaluate returns a total and per-dimension scores that all lie
\* between 0 and 1.
C28_ScoresInUnitInterval ==
    probe.op = "evaluate" =>
        /\ "total" \in DOMAIN probe.scores
        /\ Cardinality(DOMAIN probe.scores) = 4
        /\ \A x \in ScoreFields(probe.scores) : 0 <= x /\ x <= 1000

\* C28 witness: an answer whose words all occur in the chunks and which
\* cites a source: the grounding score would pass 1 and is capped.
C28_Witness ==
    /\ probe.op = "evaluate" /\ ~probe.is_code
    /\ HasChunks(probe.rag_chunks)
    /\ probe.solution.words = Vocabulary
    /\ "citation" \in probe.solution.feats
    /\ probe.scores.grounding = 1000
    /\ probe.scores.total = 840

\* ---------------------------------------------------------------- C29
\* C29 as stated: max_tokens is 384 (fast) or 640 (normal) for code tasks
\* and 512 (fast) or 1024 (normal) for non-code tasks.
C29_TokenBudgetTable ==
    probe.op = "token_limit" =>
        probe.max_tokens =
            IF probe.is_code THEN (IF probe.fast_mode THEN 384 ELSE 640)
            ELSE (IF probe.fast_mode THEN 512 ELSE 1024)

ContentLines(lines) ==
    Cardinality({ i \in DOMAIN lines : lines[i] = "content" })

IndexedIds == { redis.task_ids[i].member : i \in DOMAIN redis.task_ids }

\* C30 as stated: after any sequence of record_task calls at most 100 task
\* records remain, the 100 most recent ones; the hash, the iteration records
\* and the index entry of every older task are gone.
C30_KeepsNewest100 ==
    /\ Cardinality(redis.tasks) <= KeepCount
    /\ \A id \in 1..(redis.task_counter - KeepCount) :
          /\ id \notin redis.tasks
          /\ id \notin IndexedIds
          /\ \A it \in redis.iterations \cup redis.iteration_sets : it[1] # id

\* ---------------------------------------------------------------- C25
LoopLeft == pc \in {"store", "end", "analytics", "done", "cancelled"}

\* C25 as stated: once the consumer has stopped reading, the round loop
\* still goes on and reaches its stop decision.
C25_StalledConsumerLoopProgresses ==
    [](consumer.stalled => <>LoopLeft)

\* ---------------------------------------------------------------- C31
OfType(type) == SelectSeq(events, LAMBDA e : e.type = type)

\* C31: in live mode the iteration_complete events carry, in order, the
\* rounds 1, 2, ... of the history; the `end` event's iterations list is the
\* sequence of their data payloads and total_iterations their number; and no
\* round of the history and no emitted event ever changes afterwards.
C31_EndListsEmittedRounds ==
    /\ [](mode = "live" =>
            LET completes == OfType("iteration_complete")
            IN  /\ Len(completes) = Len(iterations)
                /\ \A k \in DOMAIN completes :
                      /\ completes[k].iteration = k
                      /\ completes[k].data.iteration = k
                      /\ completes[k].data = iterations[k]
                /\ \A i \in DOMAIN events :
                      events[i].type = "end" =>
                          /\ events[i].iterations = [k \in DOMAIN completes |-> completes[k].data]
                          /\ events[i].total_iterations = Len(completes)
                          /\ OfType("iteration_complete") =
                                 SelectSeq(SubSeq(events, 1, i - 1),
                                           LAMBDA e : e.type = "iteration_complete"))
    /\ [][/\ Len(iterations') >= Len(iterations)
          /\ \A k \in DOMAIN iterations : iterations'[k] = iterations[k]
          /\ Len(events') >= Len(events)
          /\ \A i \in DOMAIN events : events'[i] = events[i]]_vars

\* C31 witness: an `end` event that lists two different rounds.
C31_Witness ==
    /\ mode = "live" /\ events # << >> /\ Last(events).type = "end"
    /\ Last(events).total_iterations = 2
    /\ Last(events).iterations[1] # Last(events).iterations[2]
    /\ Last(events).iterations[2].iteration = 2

\* ---------------------------------------------------------------- C32
PlateauEvents == { i \in DOMAIN events : events[i].type = "plateau_reached" }

\* C32: the step that leaves the live loop on plateau emits plateau_reached;
\* a session that left the loop before max_iterations rounds has exactly one
\* such event, no session has more; the event directly follows the last
\* round's iteration_complete and only `end` (or `error`) can follow it.
C32_OnePlateauEvent ==
    /\ [][(mode = "live" /\ pc = "converge" /\ pc' = "store" /\ iteration' = iteration)
             => events' = Append(events, [type |-> "plateau_reached"])]_vars
    /\ [](mode = "live" =>
            /\ Cardinality(PlateauEvents) <= 1
            /\ ((pc \in {"store", "end", "analytics"} \/ "end" \in Types)
                    /\ Len(iterations) < max_iterations)
                  => Cardinality(PlateauEvents) = 1
            /\ \A i \in PlateauEvents :
                  /\ i > 1
                  /\ events[i - 1].type = "iteration_complete"
                  /\ events[i - 1].iteration = Len(iterations)
                  /\ \A j \in DOMAIN events :
                        j > i => j = i + 1 /\ events[j].type \in {"end", "error"})

\* C32 witness: a session stopped on plateau after 2 of 3 permitted rounds
\* and closed by `end`.
C32_Witness ==
    /\ mode = "live" /\ max_iterations = 3 /\ Len(iterations) = 2
    /\ Cardinality(PlateauEvents) = 1
    /\ Last(events).type = "end"
    /\ events[Len(events) - 1].type = "plateau_reached"

\* ---------------------------------------------------------------- C33
IndicesOf(type) == { i \in DOMAIN events : events[i].type = type }

\* C33: in live mode `start` is the first event and is sent once;
\* rag_retrieved is the second event of every session with retrieval enabled
\* that got past `start`, is sent once, and is never sent otherwise;
\* memory_found is sent at most once; both come before every iteration_start.
C33_OpeningEvents ==
    mode = "live" =>
        /\ events # << >> => IndicesOf("start") = {1}
        /\ IF request.use_rag
           THEN /\ Len(events) >= 2 => IndicesOf("rag_retrieved") = {2}
                /\ pc \notin {"start", "rag", "cancelled"} => IndicesOf("rag_retrieved") = {2}
           ELSE IndicesOf("rag_retrieved") = {}
        /\ Cardinality(IndicesOf("memory_found")) <= 1
        /\ \A i \in IndicesOf("rag_retrieved") \cup IndicesOf("memory_found") :
              \A j \in IndicesOf("iteration_start") : i < j

\* C33 witness: start, rag_retrieved, memory_found, then the first round.
C33_Witness ==
    /\ mode = "live" /\ request.use_rag /\ Len(events) >= 4
    /\ events[1].type = "start"
    /\ events[2].type = "rag_retrieved"
    /\ events[3].type = "memory_found"
    /\ events[4].type = "iteration_start"

\* ---------------------------------------------------------------- C34
\* C34: record_task is handed to the background dispatcher at most once per
\* session, in live mode only with the `end` event already sent, in aggregate
\* mode only with the result computed, and never in a session that ended
\* with `error` or with an exception.
C34_AnalyticsAfterSuccess ==
    /\ analytics_tasks <= 1
    /\ Len(background) = analytics_tasks
    /\ analytics_tasks = 1 =>
          IF mode = "live"
          THEN "end" \in Types /\ "error" \notin Types
          ELSE result.status = "returned" /\ response = 200
    /\ (("error" \in Types) \/ result.status = "raised" \/ response = 500)
          => analytics_tasks = 0

\* C34 witness: a live session that sent `end` and then submitted its record,
\* which the dispatcher has run.
C34_Witness ==
    /\ mode = "live" /\ pc = "done"
    /\ analytics_tasks = 1 /\ Last(events).type = "end"
    /\ Len(background) = 1 /\ background[1].runs = 1

\* ---------------------------------------------------------------- C35
\* C35 as stated: served the same request with the same scripted adapter
\* outputs, the live `end` payload and the aggregate result agree on
\* total_iterations, final_score and final_solution.
C35_ModesAgree ==
    probe.op = "sessions" => probe.live = probe.aggregate

\* What a session of the state machine returned is what the round loop
\* function gives for the texts its Improver calls returned.
SessionScript ==
    [k \in 1..MaxRounds |->
        IF k <= Len(iterations)
        THEN iterations[k].agni_output
        ELSE Text("", 1, {"structure"}, {"sort"})]

RoundLoopMatchesProcess ==
    (mode = "aggregate" /\ result.status = "returned") =>
        LET o == SessionOutcome(FALSE, SessionScript, request.is_code, rag_chunks,
                                max_iterations, min_improvement)
        IN  /\ o.total_iterations = result.total_iterations
            /\ o.final_score = result.final_score
            /\ o.final_solution = result.final_solution

\* ---------------------------------------------------------------- C36
FinalPayloads ==
    { events[i] : i \in { j \in DOMAIN events : events[j].type = "end" } }
        \cup (IF result.status = "returned" THEN {result} ELSE {})

NoRoundAboveZero == \A k \in DOMAIN iterations : iterations[k].score <= 0

\* C36: in the `end` payload and in the aggregate result final_solution is
\* null exactly when no completed round scored above 0, and with
\* final_score > 0 it is the improved text of a completed round; the same
\* holds of best_solution whenever a round's update has run.
C36_FinalSolutionNull ==
    /\ RoundSettled => (best_solution = NoneText <=> NoRoundAboveZero)
    /\ \A p \in FinalPayloads :
          /\ p.final_solution = NoneText <=> NoRoundAboveZero
          /\ p.final_score > 0 =>
                \E k \in DOMAIN iterations :
                    /\ p.final_solution = iterations[k].agni_output
                    /\ p.final_score = iterations[k].score

\* C36 witness: an aggregate result whose best round returned the empty
\* string: final_solution is "", not null, with the lowest code score.
C36_Witness ==
    /\ mode = "aggregate" /\ result.status = "returned"
    /\ result.final_solution = EmptyText
    /\ result.final_score = 500
    /\ result.total_iterations = 2

\* ---------------------------------------------------------------- C37
\* C37: a live session that ended with `error` because an adapter call of a
\* round n >= 2 raised has made no Memory store call, whatever best_score
\* the earlier rounds had reached.
C37_NoStoreAfterRoundFailure ==
    (/\ mode = "live" /\ calls # << >> /\ events # << >>
     /\ Last(events).type = "error"
     /\ ~Last(calls).out.ok /\ Last(calls).iteration >= 2)
        => store_calls = << >>

\* C37 witness: round 1 completed with a score above 0.6, then a call of
\* round 2 raised and the stream ended with `error`.
C37_Witness ==
    /\ mode = "live" /\ calls # << >> /\ events # << >>
    /\ Last(events).type = "error"
    /\ ~Last(calls).out.ok /\ Last(calls).iteration = 2
    /\ Len(iterations) = 1 /\ best_score > PersistFloor

\* ---------------------------------------------------------------- C39
\* C39: in a prose session without retrieved chunks every round scores 0.5;
\* with max_iterations >= 2 the loop is left after exactly two rounds and
\* the Memory store is never called.
C39_ProseWithoutChunks ==
    (~request.is_code /\ ~HasChunks(rag_chunks)) =>
        /\ \A k \in DOMAIN iterations : iterations[k].score = 500
        /\ best_score \in {0, 500}
        /\ store_calls = << >>
        /\ max_iterations >= 2 =>
              /\ Len(iterations) <= 2
              /\ (pc \in {"store", "end", "analytics", "return"} \/ NormalStopPassed)
                    => Len(iterations) = 2

\* C39 witness: a prose session without chunks, three rounds permitted, that
\* returned after two rounds with differing improved texts.
C39_Witness ==
    /\ mode = "aggregate" /\ ~request.is_code /\ ~HasChunks(rag_chunks)
    /\ max_iterations = 3 /\ result.status = "returned"
    /\ result.total_iterations = 2
    /\ iterations[1].agni_output # iterations[2].agni_output
    /\ "multiline" \in iterations[2].agni_output.feats

\* ---------------------------------------------------------------- C38
\* C38 as stated: every record a session has persisted for the task looked
\* up (all persisted scores are above 0.6) is among the results of
\* retrieve_similar for that task text.
C38_PersistedIsRetrieved ==
    probe.op = "retrieve_similar" =>
        \A r \in memories :
            r.task = probe.task =>
                \E i \in DOMAIN probe.similar : probe.similar[i] = r

================================================================
